---- MODULE Spec2Model ----
(***************************************************************************)
(* FlowGuard admission engine: the token bucket (internal/types) and the   *)
(* rate limiter Manager (internal/limiter), as a state machine.            *)
(*                                                                         *)
(* Time is the wall clock in whole seconds.  A bucket's float64 level is   *)
(* kept exactly, in units of 1/SecondsPerMinute of a token, so that        *)
(* elapsed * refillRate (refillRate = refillPerMinute / 60.0) is an        *)
(* integer; the rounding of float64 is in the section on the TokenBucket   *)
(* in float64.  A Go pointer that may be nil is a sequence of length 0 or  *)
(* 1.                                                                      *)
(* Every region of code that runs under one lock is one atomic action;     *)
(* CheckAndConsume, which takes and releases locks several times, is one   *)
(* action per locked region, interleaved with the other goroutines.        *)
(***************************************************************************)
EXTENDS Integers, Sequences, FiniteSets, TLC

\* ---------------------------------------------------------------- bounds
MaxTime == 30
TickSeconds == 30
MaxOps == 3
MaxLimit == 1
MaxWeight == 2
MaxCapacity == 2
Horizon == 90
IntBits == 8
MantissaBits == 10
PauseSeconds == 20

\* ------------------------------------------------------- program constants
SecondsPerMinute == 60

ClientIds == {"a"}
Threads == {"t1", "t2"}
\* the goroutines that serve a new request only when goroutine t is busy:
\* which idle goroutine takes a request makes no difference
After(t) == IF t = "t1" THEN {"t2"} ELSE {}
Oids == 1..(Cardinality(ClientIds) + Cardinality(Threads))

\* nil / non-nil pointers
Nil == <<>>
Ptr(x) == <<x>>
Deref(p) == p[1]

\* int64, narrowed to IntBits bits so that its largest values are within reach:
\* the largest one, and the value an int64 holds after an addition
MaxInt64 == 2 ^ (IntBits - 1) - 1
Int64(x) == ((x + 2 ^ (IntBits - 1)) % (2 ^ IntBits)) - 2 ^ (IntBits - 1)

Weights == 0..MaxWeight
Limits == {Nil} \cup {Ptr(n) : n \in 0..MaxLimit}

\* types.ClientConfig
ClientConfig == [ClientID : ClientIds, RPM : Limits, TPM : Limits, Enabled : BOOLEAN]

VARIABLES
    now,        \* time.Now(), seconds
    clients,    \* Manager.clients : clientID -> *ClientLimiter (an Oid) or nil
    heap,       \* the ClientLimiter objects, by address
    stats,      \* Manager.stats : clientID -> *ClientStats or nil
    thr,        \* per goroutine: position in CheckAndConsume and its locals
    returned,   \* what the step just taken returned to its caller, if it returned
    ops,        \* number of Manager operations started so far
    admitted,   \* history: the times at which CheckAndConsume returned nil
    bucket,     \* a TokenBucket on its own (nil in the Manager's specifications)
    log,        \* history: the calls of one caller and what they returned
    http,       \* proxy.Handler: the request ServeHTTP is serving and where it is
    metrics,    \* metrics.Metrics: the counters, gauges and histograms, by client
    locks       \* per goroutine: the lock it holds inside CheckAndConsume, if any

vars == <<now, clients, heap, stats, thr, returned, ops, admitted, bucket, log,
          http, metrics, locks>>

\* what a caller that keeps the log never touches
side == <<admitted, bucket, http, metrics, locks>>

\* what the Manager's operations never touch
aux == <<log, side>>

\* ------------------------------------------------------------ TokenBucket

min(a, b) == IF a < b THEN a ELSE b

\* NewTokenBucket that takes refillPerMinute for a rate per second
NewTokenBucket_PerSecond(capacity, refillPerMinute, t) ==
    [capacity   |-> capacity,
     tokens     |-> capacity * SecondsPerMinute,
     refillRate |-> refillPerMinute * SecondsPerMinute,
     lastRefill |-> t]

NewTokenBucket(capacity, refillPerMinute, t) ==
    [capacity   |-> capacity,
     tokens     |-> capacity * SecondsPerMinute,
     refillRate |-> refillPerMinute,
     lastRefill |-> t]

\* refill without the clamp to capacity
refill_NoClamp(tb, t) ==
    LET elapsed == t - tb.lastRefill IN
    IF elapsed > 0
    THEN [tb EXCEPT !.tokens = tb.tokens + elapsed * tb.refillRate,
                    !.lastRefill = t]
    ELSE tb

refill(tb, t) ==
    LET elapsed == t - tb.lastRefill IN
    IF elapsed > 0
    THEN [tb EXCEPT !.tokens = min(tb.tokens + elapsed * tb.refillRate,
                                   tb.capacity * SecondsPerMinute),
                    !.lastRefill = t]
    ELSE tb

\* TryConsume that wants more than the amount in the bucket
TryConsume_Strict(tb, tokens, t) ==
    LET r == refill(tb, t) IN
    IF r.tokens > tokens * SecondsPerMinute
    THEN [ok |-> TRUE,  tb |-> [r EXCEPT !.tokens = @ - tokens * SecondsPerMinute]]
    ELSE [ok |-> FALSE, tb |-> r]

\* TryConsume that lets a bucket that is not empty go below 0
TryConsume_Overdraft(tb, tokens, t) ==
    LET r == refill(tb, t) IN
    IF r.tokens >= tokens * SecondsPerMinute \/ r.tokens > 0
    THEN [ok |-> TRUE,  tb |-> [r EXCEPT !.tokens = @ - tokens * SecondsPerMinute]]
    ELSE [ok |-> FALSE, tb |-> r]

\* TryConsume that hands out what is left when the level is short
TryConsume_Partial(tb, tokens, t) ==
    LET r == refill(tb, t) IN
    IF r.tokens >= tokens * SecondsPerMinute
    THEN [ok |-> TRUE,  tb |-> [r EXCEPT !.tokens = @ - tokens * SecondsPerMinute]]
    ELSE [ok |-> FALSE, tb |-> [r EXCEPT !.tokens = 0]]

\* the bucket after the call, and the call's result
TryConsume(tb, tokens, t) ==
    LET r == refill(tb, t) IN
    IF r.tokens >= tokens * SecondsPerMinute
    THEN [ok |-> TRUE,  tb |-> [r EXCEPT !.tokens = @ - tokens * SecondsPerMinute]]
    ELSE [ok |-> FALSE, tb |-> r]

\* GetRemainingTokens that takes a token out when it reads the level
GetRemainingTokens_Take(tb, t) ==
    LET r == refill(tb, t) IN
    [n |-> r.tokens \div SecondsPerMinute,
     tb |-> [r EXCEPT !.tokens = IF @ >= SecondsPerMinute THEN @ - SecondsPerMinute ELSE @]]

\* lines 67-73: the value returned and the bucket as refilled
GetRemainingTokens(tb, t) ==
    LET r == refill(tb, t) IN
    [n |-> r.tokens \div SecondsPerMinute, tb |-> r]

\* ------------------------------------------------------------ ClientStats

\* AvgLatencyMs is the exact rational <<n, e>> = n / 2^e, n odd or e = 0
RECURSIVE Norm(_, _)
Norm(n, e) == IF e > 0 /\ n % 2 = 0 THEN Norm(n \div 2, e - 1) ELSE <<n, e>>
Zero == <<0, 0>>
LatencySamples == {0, 2}

NewClientStats(t) ==
    [TotalRequests   |-> 0,
     SuccessRequests |-> 0,
     DroppedRequests |-> 0,
     RPMDropped      |-> 0,
     TPMDropped      |-> 0,
     TokensUsed      |-> 0,
     RPMRemaining    |-> 0,
     TPMRemaining    |-> 0,
     LastRequestTime |-> t,
     AvgLatencyMs    |-> Zero]

\* the record after updateSuccessStats / updateDroppedStats
\* updateSuccessStats that counts the request and not its tokens
SuccessStats_NoTokens(st, tokens, t) ==
    [st EXCEPT !.TotalRequests   = @ + 1,
               !.SuccessRequests = @ + 1,
               !.LastRequestTime = t]

SuccessStats(st, tokens, t) ==
    [st EXCEPT !.TotalRequests   = @ + 1,
               !.SuccessRequests = @ + 1,
               !.TokensUsed      = Int64(@ + tokens),
               !.LastRequestTime = t]

\* updateDroppedStats with the cases of its switch exchanged
DroppedStats_Swapped(st, reason, t) ==
    [st EXCEPT !.TotalRequests   = @ + 1,
               !.DroppedRequests = @ + 1,
               !.LastRequestTime = t,
               !.RPMDropped      = IF reason = "tpm" THEN @ + 1 ELSE @,
               !.TPMDropped      = IF reason = "rpm" THEN @ + 1 ELSE @]

\* updateDroppedStats without DroppedRequests++
DroppedStats_NoDropped(st, reason, t) ==
    [st EXCEPT !.TotalRequests   = @ + 1,
               !.LastRequestTime = t,
               !.RPMDropped      = IF reason = "rpm" THEN @ + 1 ELSE @,
               !.TPMDropped      = IF reason = "tpm" THEN @ + 1 ELSE @]

DroppedStats(st, reason, t) ==
    [st EXCEPT !.TotalRequests   = @ + 1,
               !.DroppedRequests = @ + 1,
               !.LastRequestTime = t,
               !.RPMDropped      = IF reason = "rpm" THEN @ + 1 ELSE @,
               !.TPMDropped      = IF reason = "tpm" THEN @ + 1 ELSE @]

LatencyStats(st, latencyMs) ==
    [st EXCEPT !.AvgLatencyMs =
        IF @ = Zero THEN <<latencyMs, 0>>
        ELSE Norm(@[1] + latencyMs * (2 ^ @[2]), @[2] + 1)]

\* ---------------------------------------------------------- ClientLimiter

\* SetClientConfig that makes a bucket for a limit of 0 too
NewBucketFor_ZeroToo(limit, t) ==
    IF limit # Nil /\ Deref(limit) >= 0
    THEN Ptr(NewTokenBucket(Deref(limit), Deref(limit), t))
    ELSE Nil

\* lines 104-110: the bucket SetClientConfig makes for a limit
NewBucketFor(limit, t) ==
    IF limit # Nil /\ Deref(limit) > 0
    THEN Ptr(NewTokenBucket(Deref(limit), Deref(limit), t))
    ELSE Nil

NewClientLimiter(config, t) ==
    [config    |-> config,
     rpmBucket |-> NewBucketFor(config.RPM, t),
     tpmBucket |-> NewBucketFor(config.TPM, t)]

\* the objects reachable from the registry cl and the goroutines' locals th
Referenced(cl, th) ==
    {Deref(cl[c]) : c \in {x \in DOMAIN cl : cl[x] # Nil}}
        \cup {Deref(th[t].client) : t \in {x \in DOMAIN th : th[x].client # Nil}}

\* the allocator: the lowest free address
Fresh(cl, th) ==
    CHOOSE o \in DOMAIN heap \ Referenced(cl, th) :
        \A p \in DOMAIN heap \ Referenced(cl, th) : o <= p

\* the garbage collector: an unreachable object is gone
Collect(h, cl, th) ==
    [o \in DOMAIN h |-> IF o \in Referenced(cl, th) THEN h[o] ELSE Nil]

\* a goroutine that is not inside CheckAndConsume
Idle == [pc |-> "idle", clientID |-> CHOOSE c \in ClientIds : TRUE,
         tokenEstimate |-> 0, client |-> Nil, statsExists |-> FALSE]

\* goroutine t leaves CheckAndConsume with err: "nil" (admitted), "rpm_exceeded"
\* (ErrRPMExceeded), "tpm_exceeded" (ErrTPMExceeded), or "panic" (a nil
\* pointer dereference: the call returns nothing)
Return(t, err) ==
    /\ thr' = [thr EXCEPT ![t] = Idle]
    /\ returned' = Ptr([t |-> t, clientID |-> thr[t].clientID,
                        tokenEstimate |-> thr[t].tokenEstimate, err |-> err])

\* ------------------------------------------------------ the collaborators

\* a Handler that is serving no request
NoRequest == [pc |-> "idle", clientID |-> "", tokenEstimate |-> 0, startTime |-> 0]

\* the Metrics after NewMetrics: no series yet
NoMetrics == [c \in {} |-> 0]

\* a goroutine that holds no lock, and all of them holding none
Unlocked == [lock |-> "none", obj |-> 0]
NoLocks == [t \in Threads |-> Unlocked]

\* ---------------------------------------------------------------- Manager

\* NewManager
NewManager ==
    /\ now = 0
    /\ clients = [c \in ClientIds |-> Nil]
    /\ heap = [o \in Oids |-> Nil]
    /\ stats = [c \in ClientIds |-> Nil]
    /\ thr = [t \in Threads |-> Idle]
    /\ returned = Nil
    /\ ops = 0

Init ==
    /\ NewManager
    /\ admitted = <<>>
    /\ bucket = Nil
    /\ log = <<>>
    /\ http = NoRequest
    /\ metrics = NoMetrics
    /\ locks = NoLocks

\* SetClientConfig that starts the statistics anew
SetClientConfigBody_NewStats(config, th) ==
    LET id  == config.ClientID
        oid == Fresh([clients EXCEPT ![id] = Nil], th)
        cl  == [clients EXCEPT ![id] = Ptr(oid)]
    IN  /\ clients' = cl
        /\ heap' = Collect([heap EXCEPT ![oid] = Ptr(NewClientLimiter(config, now))], cl, th)
        /\ stats' = [stats EXCEPT ![id] = Ptr(NewClientStats(now))]

\* SetClientConfig that keeps the buckets of a client it already has
SetClientConfigBody_KeepBuckets(config, th) ==
    LET id  == config.ClientID
        oid == Fresh([clients EXCEPT ![id] = Nil], th)
        cl  == [clients EXCEPT ![id] = Ptr(oid)]
        new == IF clients[id] = Nil THEN NewClientLimiter(config, now)
               ELSE [Deref(heap[Deref(clients[id])]) EXCEPT !.config = config]
    IN  /\ clients' = cl
        /\ heap' = Collect([heap EXCEPT ![oid] = Ptr(new)], cl, th)
        /\ stats' = IF stats[id] = Nil
                    THEN [stats EXCEPT ![id] = Ptr(NewClientStats(now))]
                    ELSE stats

\* SetClientConfig's writes, given the goroutines' locals th after the step
SetClientConfigBody(config, th) ==
    LET id  == config.ClientID
        oid == Fresh([clients EXCEPT ![id] = Nil], th)
        cl  == [clients EXCEPT ![id] = Ptr(oid)]
    IN  /\ clients' = cl
        /\ heap' = Collect([heap EXCEPT ![oid] = Ptr(NewClientLimiter(config, now))], cl, th)
        /\ stats' = IF stats[id] = Nil
                    THEN [stats EXCEPT ![id] = Ptr(NewClientStats(now))]
                    ELSE stats

SetClientConfig(config) ==
    /\ ops < MaxOps
    /\ ops' = ops + 1
    /\ SetClientConfigBody(config, thr)
    /\ returned' = Nil
    /\ UNCHANGED <<now, thr>>

\* DeleteClient without delete(m.stats, clientID)
DeleteClient_KeepStats(clientID) ==
    /\ ops < MaxOps
    /\ ops' = ops + 1
    /\ LET exists == clients[clientID] # Nil
           cl     == [clients EXCEPT ![clientID] = Nil]
       IN  IF exists
           THEN /\ clients' = cl
                /\ heap' = Collect(heap, cl, thr)
                /\ UNCHANGED stats
           ELSE UNCHANGED <<clients, stats, heap>>
    /\ returned' = Nil
    /\ UNCHANGED <<now, thr>>

DeleteClient(clientID) ==
    /\ ops < MaxOps
    /\ ops' = ops + 1
    /\ LET exists == clients[clientID] # Nil
           cl     == [clients EXCEPT ![clientID] = Nil]
       IN  IF exists
           THEN /\ clients' = cl
                /\ stats' = [stats EXCEPT ![clientID] = Nil]
                /\ heap' = Collect(heap, cl, thr)
           ELSE UNCHANGED <<clients, stats, heap>>
    /\ returned' = Nil
    /\ UNCHANGED <<now, thr>>

\* the bucket b after GetRemainingTokens, nil staying nil
Refreshed(b) == IF b = Nil THEN Nil ELSE Ptr(GetRemainingTokens(Deref(b), now).tb)

\* GetClientStats that makes a ClientStats for a client that has none
GetClientStats_Create(clientID) ==
    /\ ops < MaxOps
    /\ ops' = ops + 1
    /\ IF stats[clientID] = Nil
       THEN /\ stats' = [stats EXCEPT ![clientID] = Ptr(NewClientStats(now))]
            /\ UNCHANGED heap
       ELSE UNCHANGED <<stats, heap>>
    /\ returned' = Nil
    /\ UNCHANGED <<now, clients, thr>>

\* GetClientStats' refresh of the record, if the client has a ClientLimiter
GetClientStatsBody(clientID) ==
    /\ IF stats[clientID] = Nil
       THEN UNCHANGED <<stats, heap>>
       ELSE IF clients[clientID] = Nil
       THEN UNCHANGED <<stats, heap>>
       ELSE LET oid == Deref(clients[clientID])
                cl  == Deref(heap[oid])
            IN  /\ stats' = [stats EXCEPT ![clientID] = Ptr(
                       [Deref(@) EXCEPT
                           !.RPMRemaining = IF cl.rpmBucket # Nil
                               THEN GetRemainingTokens(Deref(cl.rpmBucket), now).n ELSE @,
                           !.TPMRemaining = IF cl.tpmBucket # Nil
                               THEN GetRemainingTokens(Deref(cl.tpmBucket), now).n ELSE @])]
                /\ heap' = [heap EXCEPT ![oid] = Ptr(
                       [cl EXCEPT !.rpmBucket = Refreshed(@),
                                  !.tpmBucket = Refreshed(@)])]

GetClientStats(clientID) ==
    /\ ops < MaxOps
    /\ ops' = ops + 1
    /\ GetClientStatsBody(clientID)
    /\ returned' = Nil
    /\ UNCHANGED <<now, clients, thr>>

\* UpdateLatency's write
UpdateLatencyBody(clientID, latencyMs) ==
    IF stats[clientID] = Nil
    THEN UNCHANGED stats
    ELSE stats' = [stats EXCEPT ![clientID] = Ptr(LatencyStats(Deref(@), latencyMs))]

UpdateLatency(clientID, latencyMs) ==
    /\ ops < MaxOps
    /\ ops' = ops + 1
    /\ UpdateLatencyBody(clientID, latencyMs)
    /\ returned' = Nil
    /\ UNCHANGED <<now, clients, heap, thr>>

\* lines 212 and 218: what DeleteClient(clientID) returns
DeleteClientReturn(clientID) == clients[clientID] # Nil

\* lines 148-151 and 165: what GetClientStats(clientID) returns, the record
\* being the one in the registry once the call has refreshed it
GetClientStatsReturn(clientID) ==
    [stats |-> stats'[clientID], found |-> stats[clientID] # Nil]

\* lines 132-140: what GetClientConfig(clientID) returns
GetClientConfigReturn(clientID) ==
    IF clients[clientID] = Nil
    THEN [config |-> Nil, found |-> FALSE]
    ELSE [config |-> Ptr(Deref(heap[Deref(clients[clientID])]).config), found |-> TRUE]

GetClientConfig(clientID) ==
    /\ ops < MaxOps
    /\ ops' = ops + 1
    /\ returned' = Nil
    /\ UNCHANGED <<now, clients, heap, stats, thr>>

\* lines 173-180: the map GetAllClients returns
GetAllClientsReturn ==
    [c \in {x \in DOMAIN clients : clients[x] # Nil} |-> Deref(heap[Deref(clients[c])]).config]

GetAllClients ==
    /\ ops < MaxOps
    /\ ops' = ops + 1
    /\ returned' = Nil
    /\ UNCHANGED <<now, clients, heap, stats, thr>>

\* lines 188-204: the map GetAllStats returns, of the records as refreshed
GetAllStatsReturn ==
    [c \in {x \in DOMAIN stats : stats[x] # Nil} |-> Deref(stats'[c])]

\* GetAllStats' refresh of every record that has a ClientLimiter
GetAllStatsBody ==
    /\ stats' = [c \in DOMAIN stats |->
           IF stats[c] # Nil /\ clients[c] # Nil
           THEN LET cl == Deref(heap[Deref(clients[c])]) IN
                Ptr([Deref(stats[c]) EXCEPT
                        !.RPMRemaining = IF cl.rpmBucket # Nil
                            THEN GetRemainingTokens(Deref(cl.rpmBucket), now).n ELSE @,
                        !.TPMRemaining = IF cl.tpmBucket # Nil
                            THEN GetRemainingTokens(Deref(cl.tpmBucket), now).n ELSE @])
           ELSE stats[c]]
    /\ heap' = [o \in DOMAIN heap |->
           IF \E c \in DOMAIN clients : stats[c] # Nil /\ clients[c] = Ptr(o)
           THEN Ptr([Deref(heap[o]) EXCEPT !.rpmBucket = Refreshed(@),
                                           !.tpmBucket = Refreshed(@)])
           ELSE heap[o]]

GetAllStats ==
    /\ ops < MaxOps
    /\ ops' = ops + 1
    /\ GetAllStatsBody
    /\ returned' = Nil
    /\ UNCHANGED <<now, clients, thr>>

\* the wall clock advances, up to limit
Advance(limit) ==
    /\ now + TickSeconds <= limit
    /\ now' = now + TickSeconds
    /\ returned' = Nil
    /\ UNCHANGED <<clients, heap, stats, thr, ops>>

Tick == Advance(MaxTime)

\* -------------------------------------------------------- CheckAndConsume

\* lines 35-38: look the client and its statistics up under the read lock
Lookup(t, clientID, tokenEstimate) ==
    /\ thr[t].pc = "idle"
    /\ \A u \in Threads : t \in After(u) => thr[u].pc # "idle"
    /\ ops < MaxOps
    /\ ops' = ops + 1
    /\ thr' = [thr EXCEPT ![t] =
            [pc            |-> IF clients[clientID] = Nil THEN "create"
                               ELSE IF stats[clientID] = Nil THEN "mkstats"
                               ELSE "config",
             clientID      |-> clientID,
             tokenEstimate |-> tokenEstimate,
             client        |-> clients[clientID],
             statsExists   |-> stats[clientID] # Nil]]
    /\ heap' = Collect(heap, clients, thr')
    /\ returned' = Nil
    /\ UNCHANGED <<now, clients, stats>>

\* the auto-creation without Enabled: true, the flag left at Go's zero value
AutoCreate_NoEnabled(t) ==
    /\ thr[t].pc = "create"
    /\ thr' = [thr EXCEPT ![t].pc = "relookup"]
    /\ SetClientConfigBody([ClientID |-> thr[t].clientID, RPM |-> Nil,
                            TPM |-> Nil, Enabled |-> FALSE], thr')
    /\ returned' = Nil
    /\ UNCHANGED <<now, ops>>

\* lines 40-45: auto-create the client with no limits
AutoCreate(t) ==
    /\ thr[t].pc = "create"
    /\ thr' = [thr EXCEPT ![t].pc = "relookup"]
    /\ SetClientConfigBody([ClientID |-> thr[t].clientID, RPM |-> Nil,
                            TPM |-> Nil, Enabled |-> TRUE], thr')
    /\ returned' = Nil
    /\ UNCHANGED <<now, ops>>

\* lines 46-48: read the client back
Relookup(t) ==
    /\ thr[t].pc = "relookup"
    /\ thr' = [thr EXCEPT ![t].client = clients[thr[t].clientID],
                          ![t].pc = IF thr[t].statsExists THEN "config" ELSE "mkstats"]
    /\ heap' = Collect(heap, clients, thr')
    /\ returned' = Nil
    /\ UNCHANGED <<now, clients, stats, ops>>

\* lines 51-60: create the statistics if the lookup did not see them
EnsureStats(t) ==
    /\ thr[t].pc = "mkstats"
    /\ stats' = IF stats[thr[t].clientID] = Nil
                THEN [stats EXCEPT ![thr[t].clientID] = Ptr(NewClientStats(now))]
                ELSE stats
    /\ thr' = [thr EXCEPT ![t].pc = "config"]
    /\ returned' = Nil
    /\ UNCHANGED <<now, clients, heap, ops>>

\* ReadConfig that ignores the Enabled flag
ReadConfig_AlwaysLimit(t) ==
    /\ thr[t].pc = "config"
    /\ IF thr[t].client = Nil
       THEN Return(t, "panic")
       ELSE /\ thr' = [thr EXCEPT ![t].pc = "rpm"]
            /\ returned' = Nil
    /\ heap' = Collect(heap, clients, thr')
    /\ UNCHANGED <<now, clients, stats, ops>>

\* lines 62-70: read client.config; a nil client is a nil dereference
ReadConfig(t) ==
    /\ thr[t].pc = "config"
    /\ IF thr[t].client = Nil
       THEN Return(t, "panic")
       ELSE /\ thr' = [thr EXCEPT ![t].pc =
                          IF Deref(heap[Deref(thr[t].client)]).config.Enabled
                          THEN "rpm" ELSE "success"]
            /\ returned' = Nil
    /\ heap' = Collect(heap, clients, thr')
    /\ UNCHANGED <<now, clients, stats, ops>>

\* lines 73 and 81: is the dimension limited for this ClientLimiter
RPMLimited(cl) == cl.config.RPM # Nil /\ cl.rpmBucket # Nil
TPMLimited(cl) == cl.config.TPM # Nil /\ cl.tpmBucket # Nil

\* lines 72-78: consume one request token
CheckRPM(t) ==
    /\ thr[t].pc = "rpm"
    /\ LET oid == Deref(thr[t].client)
           cl  == Deref(heap[oid])
       IN  IF RPMLimited(cl)
           THEN LET r == TryConsume(Deref(cl.rpmBucket), 1, now) IN
                /\ heap' = [heap EXCEPT ![oid] = Ptr([cl EXCEPT !.rpmBucket = Ptr(r.tb)])]
                /\ thr' = [thr EXCEPT ![t].pc = IF r.ok THEN "tpm" ELSE "drop_rpm"]
           ELSE /\ thr' = [thr EXCEPT ![t].pc = "tpm"]
                /\ UNCHANGED heap
    /\ returned' = Nil
    /\ UNCHANGED <<now, clients, stats, ops>>

\* CheckTPM that takes one token, as the request check does
CheckTPM_ChargeOne(t) ==
    /\ thr[t].pc = "tpm"
    /\ LET oid == Deref(thr[t].client)
           cl  == Deref(heap[oid])
       IN  IF TPMLimited(cl)
           THEN LET r == TryConsume(Deref(cl.tpmBucket), 1, now) IN
                /\ heap' = [heap EXCEPT ![oid] = Ptr([cl EXCEPT !.tpmBucket = Ptr(r.tb)])]
                /\ thr' = [thr EXCEPT ![t].pc = IF r.ok THEN "success" ELSE "drop_tpm"]
           ELSE /\ thr' = [thr EXCEPT ![t].pc = "success"]
                /\ UNCHANGED heap
    /\ returned' = Nil
    /\ UNCHANGED <<now, clients, stats, ops>>

\* CheckTPM that gives the request token back when the token check fails
CheckTPM_Refund(t) ==
    /\ thr[t].pc = "tpm"
    /\ LET oid == Deref(thr[t].client)
           cl  == Deref(heap[oid])
       IN  IF TPMLimited(cl)
           THEN LET r == TryConsume(Deref(cl.tpmBucket), thr[t].tokenEstimate, now) IN
                /\ heap' = [heap EXCEPT ![oid] = Ptr(
                       [cl EXCEPT !.tpmBucket = Ptr(r.tb),
                                  !.rpmBucket = IF r.ok \/ ~RPMLimited(cl) THEN @
                                      ELSE Ptr([Deref(@) EXCEPT !.tokens = @ + SecondsPerMinute])])]
                /\ thr' = [thr EXCEPT ![t].pc = IF r.ok THEN "success" ELSE "drop_tpm"]
           ELSE /\ thr' = [thr EXCEPT ![t].pc = "success"]
                /\ UNCHANGED heap
    /\ returned' = Nil
    /\ UNCHANGED <<now, clients, stats, ops>>

\* lines 80-91: consume tokenEstimate tokens; the request token is not refunded
CheckTPM(t) ==
    /\ thr[t].pc = "tpm"
    /\ LET oid == Deref(thr[t].client)
           cl  == Deref(heap[oid])
       IN  IF TPMLimited(cl)
           THEN LET r == TryConsume(Deref(cl.tpmBucket), thr[t].tokenEstimate, now) IN
                /\ heap' = [heap EXCEPT ![oid] = Ptr([cl EXCEPT !.tpmBucket = Ptr(r.tb)])]
                /\ thr' = [thr EXCEPT ![t].pc = IF r.ok THEN "success" ELSE "drop_tpm"]
           ELSE /\ thr' = [thr EXCEPT ![t].pc = "success"]
                /\ UNCHANGED heap
    /\ returned' = Nil
    /\ UNCHANGED <<now, clients, stats, ops>>

\* updateDroppedStats and the return of the error; m.stats[clientID] may be nil
Drop(t, reason, err) ==
    /\ LET id == thr[t].clientID IN
       IF stats[id] = Nil
       THEN /\ Return(t, "panic")
            /\ UNCHANGED stats
       ELSE /\ stats' = [stats EXCEPT ![id] = Ptr(DroppedStats(Deref(@), reason, now))]
            /\ Return(t, err)
    /\ heap' = Collect(heap, clients, thr')
    /\ UNCHANGED <<now, clients, ops>>

\* the request-rate rejection reported as a token-rate one
DropRPM_AsTPM(t) ==
    /\ thr[t].pc = "drop_rpm"
    /\ Drop(t, "tpm", "tpm_exceeded")

\* lines 75-76
DropRPM(t) ==
    /\ thr[t].pc = "drop_rpm"
    /\ Drop(t, "rpm", "rpm_exceeded")

\* lines 88-89
DropTPM(t) ==
    /\ thr[t].pc = "drop_tpm"
    /\ Drop(t, "tpm", "tpm_exceeded")

\* lines 68-69 and 93-94: updateSuccessStats and return nil
Success(t) ==
    /\ thr[t].pc = "success"
    /\ LET id == thr[t].clientID IN
       IF stats[id] = Nil
       THEN /\ Return(t, "panic")
            /\ UNCHANGED stats
       ELSE /\ stats' = [stats EXCEPT ![id] =
                            Ptr(SuccessStats(Deref(@), thr[t].tokenEstimate, now))]
            /\ Return(t, "nil")
    /\ heap' = Collect(heap, clients, thr')
    /\ UNCHANGED <<now, clients, ops>>

\* ------------------------------------------------------------ the program

\* the request goroutines T run CheckAndConsume
Serve(T) ==
    \/ \E t \in T, c \in ClientIds, w \in Weights : Lookup(t, c, w) /\ UNCHANGED aux
    \/ \E t \in T : AutoCreate(t) /\ UNCHANGED aux
    \/ \E t \in T : Relookup(t) /\ UNCHANGED aux
    \/ \E t \in T : EnsureStats(t) /\ UNCHANGED aux
    \/ \E t \in T : ReadConfig(t) /\ UNCHANGED aux
    \/ \E t \in T : CheckRPM(t) /\ UNCHANGED aux
    \/ \E t \in T : CheckTPM(t) /\ UNCHANGED aux
    \/ \E t \in T : DropRPM(t) /\ UNCHANGED aux
    \/ \E t \in T : DropTPM(t) /\ UNCHANGED aux
    \/ \E t \in T : Success(t) /\ UNCHANGED aux

\* the control plane, the statistics readers and the proxy's latency reports
Control ==
    \/ \E config \in ClientConfig : SetClientConfig(config) /\ UNCHANGED aux
    \/ \E c \in ClientIds : DeleteClient(c) /\ UNCHANGED aux
    \/ \E c \in ClientIds : GetClientStats(c) /\ UNCHANGED aux
    \/ \E c \in ClientIds, ms \in LatencySamples : UpdateLatency(c, ms) /\ UNCHANGED aux
    \/ Tick /\ UNCHANGED aux

\* one request goroutine against the control plane
Next == Serve({"t1"}) \/ Control

Spec == Init /\ [][Next]_vars

\* two request goroutines against the control plane
NextConc == Serve(Threads) \/ Control

SpecConc == Init /\ [][NextConc]_vars

\* ------------------------------------------------- a TokenBucket on its own

Capacities == 0..MaxCapacity

\* NewTokenBucket(capacity, refillPerMinute) at time 0
InitBucket ==
    /\ NewManager
    /\ admitted = <<>>
    /\ log = <<>>
    /\ http = NoRequest
    /\ metrics = NoMetrics
    /\ locks = NoLocks
    /\ \E capacity \in Capacities, refillPerMinute \in Capacities :
           bucket = Ptr(NewTokenBucket(capacity, refillPerMinute, 0))

\* tb.TryConsume(tokens)
TryConsumeCall(tokens) ==
    /\ bucket' = Ptr(TryConsume(Deref(bucket), tokens, now).tb)
    /\ returned' = Ptr([call |-> "TryConsume", tokens |-> tokens,
                        result |-> TryConsume(Deref(bucket), tokens, now).ok])
    /\ UNCHANGED <<now, clients, heap, stats, thr, ops, admitted, log, http, metrics, locks>>

\* tb.GetRemainingTokens()
GetRemainingTokensCall ==
    /\ bucket' = Ptr(GetRemainingTokens(Deref(bucket), now).tb)
    /\ returned' = Ptr([call |-> "GetRemainingTokens",
                        result |-> GetRemainingTokens(Deref(bucket), now).n])
    /\ UNCHANGED <<now, clients, heap, stats, thr, ops, admitted, log, http, metrics, locks>>

NextBucket ==
    \/ \E tokens \in Weights : TryConsumeCall(tokens)
    \/ GetRemainingTokensCall
    \/ Advance(Horizon) /\ UNCHANGED aux

SpecBucket == InitBucket /\ [][NextBucket]_vars

\* ------------------------------------- one client with a request-rate limit

\* the Manager right after SetClientConfig({a, RPM: R, Enabled: true}) at time 0:
\* a full request bucket, no token bucket; ops counts the calls from here on
InitWindow ==
    /\ \E R \in 1..MaxCapacity :
        LET config == [ClientID |-> "a", RPM |-> Ptr(R), TPM |-> Nil, Enabled |-> TRUE]
        IN  /\ clients = [c \in ClientIds |-> IF c = "a" THEN Ptr(1) ELSE Nil]
            /\ heap = [o \in Oids |-> IF o = 1 THEN Ptr(NewClientLimiter(config, 0)) ELSE Nil]
    /\ stats = [c \in ClientIds |-> IF c = "a" THEN Ptr(NewClientStats(0)) ELSE Nil]
    /\ now = 0
    /\ thr = [t \in Threads |-> Idle]
    /\ returned = Nil
    /\ ops = 0
    /\ admitted = <<>>
    /\ bucket = Nil
    /\ log = <<>>
    /\ http = NoRequest
    /\ metrics = NoMetrics
    /\ locks = NoLocks

\* CheckAndConsume calls on that client, one after the other, each within one
\* instant of the clock; no SetClientConfig, no DeleteClient
NextWindow ==
    \/ \E w \in Weights : Lookup("t1", "a", w) /\ UNCHANGED aux
    \/ ReadConfig("t1") /\ UNCHANGED aux
    \/ CheckRPM("t1") /\ UNCHANGED aux
    \/ CheckTPM("t1") /\ UNCHANGED aux
    \/ DropRPM("t1") /\ UNCHANGED aux
    \/ Success("t1") /\ admitted' = Append(admitted, now)
                    /\ UNCHANGED <<bucket, log, http, metrics, locks>>
    \/ thr["t1"].pc = "idle" /\ Advance(Horizon) /\ UNCHANGED aux

SpecWindow == InitWindow /\ [][NextWindow]_vars

\* the request-rate limit R of the client
WindowR == Deref(Deref(heap[Deref(clients["a"])]).config.RPM)

\* the admissions in the 60 seconds that start at time s
InWindow(s) == {i \in 1..Len(admitted) : s <= admitted[i] /\ admitted[i] < s + SecondsPerMinute}

\* ------------------------------------------- one caller, one call at a time

\* the goroutine of the caller, and the caller between two calls
Caller == "t1"
Quiet == thr[Caller].pc = "idle"

\* the log after a step of CheckAndConsume: the call is written down when it
\* returns
LogReturn ==
    log' = IF returned' = Nil THEN log
           ELSE Append(log, [call          |-> "CheckAndConsume",
                             clientID      |-> Deref(returned').clientID,
                             tokenEstimate |-> Deref(returned').tokenEstimate,
                             err           |-> Deref(returned').err,
                             at            |-> now])

\* a bucket that has given out tokens it has not got back
Used(b) == b # Nil /\ Deref(b).tokens < Deref(b).capacity * SecondsPerMinute

\* SetClientConfig(config) by the caller; the log starts again here, noting
\* whether the call replaced a ClientLimiter with a used bucket, and ops counts
\* the other calls
SeqSetClientConfig(config) ==
    /\ Quiet
    /\ ops < MaxOps
    /\ SetClientConfigBody(config, thr)
    /\ log' = <<[call     |-> "SetClientConfig",
                 config   |-> config,
                 replaced |-> IF clients[config.ClientID] = Nil THEN "none"
                              ELSE IF \/ Used(Deref(heap[Deref(clients[config.ClientID])]).rpmBucket)
                                      \/ Used(Deref(heap[Deref(clients[config.ClientID])]).tpmBucket)
                              THEN "used" ELSE "full",
                 at       |-> now]>>
    /\ returned' = Nil
    /\ UNCHANGED <<now, thr, ops, side>>

SeqDeleteClient(clientID) ==
    /\ Quiet
    /\ DeleteClient(clientID)
    /\ log' = Append(log, [call |-> "DeleteClient", clientID |-> clientID,
                           result |-> DeleteClientReturn(clientID), at |-> now])
    /\ UNCHANGED side

SeqGetClientStats(clientID) ==
    /\ Quiet
    /\ GetClientStats(clientID)
    /\ log' = Append(log, [call |-> "GetClientStats", clientID |-> clientID,
                           found |-> GetClientStatsReturn(clientID).found,
                           stats |-> GetClientStatsReturn(clientID).stats, at |-> now])
    /\ UNCHANGED side

SeqGetClientConfig(clientID) ==
    /\ Quiet
    /\ GetClientConfig(clientID)
    /\ log' = Append(log, [call |-> "GetClientConfig", clientID |-> clientID,
                           found |-> GetClientConfigReturn(clientID).found,
                           config |-> GetClientConfigReturn(clientID).config, at |-> now])
    /\ UNCHANGED side

SeqGetAllStats ==
    /\ Quiet
    /\ GetAllStats
    /\ log' = Append(log, [call |-> "GetAllStats", result |-> GetAllStatsReturn, at |-> now])
    /\ UNCHANGED side

SeqGetAllClients ==
    /\ Quiet
    /\ GetAllClients
    /\ log' = Append(log, [call |-> "GetAllClients", result |-> GetAllClientsReturn, at |-> now])
    /\ UNCHANGED side

NextSeq ==
    \/ \E config \in ClientConfig : SeqSetClientConfig(config)
    \/ \E c \in ClientIds, w \in Weights :
           Lookup(Caller, c, w) /\ LogReturn /\ UNCHANGED side
    \/ AutoCreate(Caller) /\ LogReturn /\ UNCHANGED side
    \/ Relookup(Caller) /\ LogReturn /\ UNCHANGED side
    \/ EnsureStats(Caller) /\ LogReturn /\ UNCHANGED side
    \/ ReadConfig(Caller) /\ LogReturn /\ UNCHANGED side
    \/ CheckRPM(Caller) /\ LogReturn /\ UNCHANGED side
    \/ CheckTPM(Caller) /\ LogReturn /\ UNCHANGED side
    \/ DropRPM(Caller) /\ LogReturn /\ UNCHANGED side
    \/ DropTPM(Caller) /\ LogReturn /\ UNCHANGED side
    \/ Success(Caller) /\ LogReturn /\ UNCHANGED side
    \/ \E c \in ClientIds : SeqDeleteClient(c)
    \/ \E c \in ClientIds : SeqGetClientStats(c)
    \/ \E c \in ClientIds : SeqGetClientConfig(c)

SpecSeq == Init /\ [][NextSeq]_vars

\* ------------------------------- one caller, one configuration, over time

\* the client is configured before the first call; then the caller's
\* requests, with the clock advancing between them
NextTimed ==
    \/ \E config \in ClientConfig : ops = 0 /\ now = 0 /\ SeqSetClientConfig(config)
    \/ \E c \in ClientIds, w \in Weights :
           Lookup(Caller, c, w) /\ LogReturn /\ UNCHANGED side
    \/ AutoCreate(Caller) /\ LogReturn /\ UNCHANGED side
    \/ Relookup(Caller) /\ LogReturn /\ UNCHANGED side
    \/ EnsureStats(Caller) /\ LogReturn /\ UNCHANGED side
    \/ ReadConfig(Caller) /\ LogReturn /\ UNCHANGED side
    \/ CheckRPM(Caller) /\ LogReturn /\ UNCHANGED side
    \/ CheckTPM(Caller) /\ LogReturn /\ UNCHANGED side
    \/ DropRPM(Caller) /\ LogReturn /\ UNCHANGED side
    \/ DropTPM(Caller) /\ LogReturn /\ UNCHANGED side
    \/ Success(Caller) /\ LogReturn /\ UNCHANGED side
    \/ Quiet /\ Advance(Horizon) /\ UNCHANGED aux

SpecTimed == Init /\ [][NextTimed]_vars

\* ------------------------------------------ one caller, its runs of reads

\* the log after a step of CheckAndConsume, in a log of the reads since the
\* last call that writes: a request that returns starts the log again
LogWrite == log' = IF returned' = Nil THEN log ELSE <<>>

\* the client is configured before the first call; then the caller's requests
\* and its reads, with the clock advancing between them
NextReads ==
    \/ \E config \in ClientConfig : ops = 0 /\ now = 0 /\ SeqSetClientConfig(config)
    \/ \E c \in ClientIds, w \in Weights :
           Lookup(Caller, c, w) /\ LogWrite /\ UNCHANGED side
    \/ AutoCreate(Caller) /\ LogWrite /\ UNCHANGED side
    \/ Relookup(Caller) /\ LogWrite /\ UNCHANGED side
    \/ EnsureStats(Caller) /\ LogWrite /\ UNCHANGED side
    \/ ReadConfig(Caller) /\ LogWrite /\ UNCHANGED side
    \/ CheckRPM(Caller) /\ LogWrite /\ UNCHANGED side
    \/ CheckTPM(Caller) /\ LogWrite /\ UNCHANGED side
    \/ DropRPM(Caller) /\ LogWrite /\ UNCHANGED side
    \/ DropTPM(Caller) /\ LogWrite /\ UNCHANGED side
    \/ Success(Caller) /\ LogWrite /\ UNCHANGED side
    \/ \E c \in ClientIds : SeqGetClientStats(c)
    \/ \E c \in ClientIds : SeqGetClientConfig(c)
    \/ SeqGetAllStats
    \/ SeqGetAllClients
    \/ Quiet /\ Advance(Horizon) /\ UNCHANGED aux

SpecReads == Init /\ [][NextReads]_vars

\* ------------------------------------------- one caller's latency reports

SeqUpdateLatency(clientID, latencyMs) ==
    /\ Quiet
    /\ UpdateLatency(clientID, latencyMs)
    /\ log' = Append(log, [call |-> "UpdateLatency", clientID |-> clientID,
                           latencyMs |-> latencyMs, at |-> now])
    /\ UNCHANGED side

\* the client is configured, or not, before the first report
NextLatency ==
    \/ \E config \in ClientConfig : ops = 0 /\ SeqSetClientConfig(config)
    \/ \E c \in ClientIds, ms \in LatencySamples : SeqUpdateLatency(c, ms)

SpecLatency == Init /\ [][NextLatency]_vars

\* ------------------------------------------ the REST configuration server

\* the client identifiers of two tenants
Tenants == {"a", "b"}

\* a member a JSON object does not have
Missing == Nil

\* a request body that is not JSON
InvalidBody ==
    [valid |-> FALSE, client_id |-> Missing, rpm |-> Missing, tpm |-> Missing,
     enabled |-> Missing]

\* a limit in a body: none, zero, or the largest
BodyLimits == {Missing, Ptr(0), Ptr(MaxLimit)}

\* the request bodies: InvalidBody, or a JSON object with some of the members
\* client_id, rpm, tpm (none or the largest) and enabled
Bodies ==
    {InvalidBody} \cup
    [valid : {TRUE}, client_id : {Missing} \cup {Ptr(c) : c \in Tenants},
     rpm : BodyLimits, tpm : {Missing, Ptr(MaxLimit)}, enabled : {Missing, Ptr(TRUE), Ptr(FALSE)}]

\* json.Decode into a zero ClientConfig: a missing member leaves the field at
\* Go's zero value
Decode(body) ==
    [ClientID |-> IF body.client_id = Missing THEN "" ELSE Deref(body.client_id),
     RPM      |-> body.rpm,
     TPM      |-> body.tpm,
     Enabled  |-> IF body.enabled = Missing THEN FALSE ELSE Deref(body.enabled)]

\* the response goes to the log, which starts again at every request to this
\* server: the request's number, what was asked (of the body, whether it said
\* enabled) and the status written, and how many requests of the client had
\* been admitted by then
Respond(call, clientID, body, status, error) ==
    log' = <<[call |-> call, clientID |-> clientID, enabled |-> body.enabled,
              status |-> status, error |-> error, n |-> ops', at |-> now,
              success |-> IF clientID \in DOMAIN stats /\ stats[clientID] # Nil
                          THEN Deref(stats[clientID]).SuccessRequests ELSE 0]>>

\* writeError without a call of the Manager
RespondOnly(call, clientID, body, status, error) ==
    /\ ops < MaxOps
    /\ ops' = ops + 1
    /\ returned' = Nil
    /\ Respond(call, clientID, body, status, error)
    /\ UNCHANGED <<now, clients, heap, stats, thr>>

\* POST /clients
createClient(body) ==
    /\ IF ~body.valid
       THEN RespondOnly("createClient", "", body, 400, "invalid_json")
       ELSE IF Decode(body).ClientID = ""
       THEN RespondOnly("createClient", "", body, 400, "missing_field")
       ELSE /\ SetClientConfig(Decode(body))
            /\ Respond("createClient", Decode(body).ClientID, body, 201, "")
    /\ UNCHANGED side

\* PUT /clients/{client_id}
updateClient(clientID, body) ==
    /\ IF ~body.valid
       THEN RespondOnly("updateClient", clientID, body, 400, "invalid_json")
       ELSE /\ SetClientConfig([Decode(body) EXCEPT !.ClientID = clientID])
            /\ Respond("updateClient", clientID, body, 200, "")
    /\ UNCHANGED side

\* GET /clients/{client_id}
getClient(clientID) ==
    /\ GetClientConfig(clientID)
    /\ IF GetClientConfigReturn(clientID).found
       THEN Respond("getClient", clientID, InvalidBody, 200, "")
       ELSE Respond("getClient", clientID, InvalidBody, 404, "client_not_found")
    /\ UNCHANGED side

\* DELETE /clients/{client_id}
deleteClient(clientID) ==
    /\ DeleteClient(clientID)
    /\ IF DeleteClientReturn(clientID)
       THEN Respond("deleteClient", clientID, InvalidBody, 200, "")
       ELSE Respond("deleteClient", clientID, InvalidBody, 404, "client_not_found")
    /\ UNCHANGED side

\* GET /clients/{client_id}/stats
getClientStats(clientID) ==
    /\ GetClientStats(clientID)
    /\ IF GetClientStatsReturn(clientID).found
       THEN Respond("getClientStats", clientID, InvalidBody, 200, "")
       ELSE Respond("getClientStats", clientID, InvalidBody, 404, "client_not_found")
    /\ UNCHANGED side

\* a Manager for the tenants, nothing configured
InitRest ==
    /\ now = 0
    /\ clients = [c \in Tenants |-> Nil]
    /\ heap = [o \in 1..(Cardinality(Tenants) + Cardinality(Threads)) |-> Nil]
    /\ stats = [c \in Tenants |-> Nil]
    /\ thr = [t \in Threads |-> Idle]
    /\ returned = Nil
    /\ ops = 0
    /\ admitted = <<>>
    /\ bucket = Nil
    /\ log = <<>>
    /\ http = NoRequest
    /\ metrics = NoMetrics
    /\ locks = NoLocks

\* the server's requests and the proxy's, one at a time; the client_id of a
\* PUT body is overwritten by the one of the URL and is left out
NextRest ==
    \/ \E body \in Bodies : Quiet /\ createClient(body)
    \/ \E c \in Tenants, body \in Bodies :
           Quiet /\ body.client_id = Missing /\ updateClient(c, body)
    \/ \E c \in Tenants : Quiet /\ getClient(c)
    \/ \E c \in Tenants : Quiet /\ deleteClient(c)
    \/ \E c \in Tenants : Quiet /\ getClientStats(c)
    \/ \E c \in Tenants, w \in Weights : Lookup(Caller, c, w) /\ UNCHANGED aux
    \/ AutoCreate(Caller) /\ UNCHANGED aux
    \/ Relookup(Caller) /\ UNCHANGED aux
    \/ EnsureStats(Caller) /\ UNCHANGED aux
    \/ ReadConfig(Caller) /\ UNCHANGED aux
    \/ CheckRPM(Caller) /\ UNCHANGED aux
    \/ CheckTPM(Caller) /\ UNCHANGED aux
    \/ DropRPM(Caller) /\ UNCHANGED aux
    \/ DropTPM(Caller) /\ UNCHANGED aux
    \/ Success(Caller) /\ UNCHANGED aux

SpecRest == InitRest /\ [][NextRest]_vars

\* ------------------------------------------------------- the proxy handler

\* strconv.ParseInt(s, 10, 64) of a header value, a sequence of characters:
\* an optional sign, then decimal digits, within the range of an int64
DigitChars == <<"0", "1", "2", "3", "4", "5", "6", "7", "8", "9">>
IsDigit(ch) == \E i \in 1..10 : DigitChars[i] = ch
DigitValue(ch) == (CHOOSE i \in 1..10 : DigitChars[i] = ch) - 1

\* the value of the digits s[1..n]
RECURSIVE ParseUint(_, _)
ParseUint(s, n) == IF n = 0 THEN 0 ELSE ParseUint(s, n - 1) * 10 + DigitValue(s[n])

ParseInt(s) ==
    LET signed == s # <<>> /\ s[1] \in {"+", "-"}
        neg    == s # <<>> /\ s[1] = "-"
        digits == IF signed THEN Tail(s) ELSE s
        un     == ParseUint(digits, Len(digits))
    IN  IF digits = <<>> \/ \E i \in 1..Len(digits) : ~IsDigit(digits[i])
        THEN [n |-> 0, err |-> "syntax"]
        ELSE IF (~neg /\ un > MaxInt64) \/ (neg /\ un > MaxInt64 + 1)
        THEN [n |-> IF neg THEN -MaxInt64 - 1 ELSE MaxInt64, err |-> "range"]
        ELSE [n |-> IF neg THEN -un ELSE un, err |-> "nil"]

\* the decimal numeral of n >= 0, as a client writes it into the header
RECURSIVE Decimal(_)
Decimal(n) ==
    IF n < 10 THEN <<DigitChars[n + 1]>>
    ELSE Append(Decimal(n \div 10), DigitChars[(n % 10) + 1])

\* the values of X-Client-ID, "" when the header is missing
ClientHeaders == {""} \cup ClientIds

\* the values of X-Token-Estimate: missing, the weights, signed numerals,
\* things that are no integer, and numerals beyond an int64
TokenHeaders ==
    {<<>>} \cup {Decimal(w) : w \in Weights}
        \cup {<<"-">> \o Decimal(1), <<"-">> \o Decimal(0), <<"+">> \o Decimal(MaxWeight),
              <<"-">>, <<"x">>, Decimal(1) \o <<".">> \o Decimal(5),
              Decimal(MaxInt64 + 1)}

\* the step of the handler is written to the log, which holds what has been
\* done for the request being served, or for the last one served
Event(e) == log' = Append(log, e)

\* writeErrorResponse with status 400: the handler returns
BadRequest(error) ==
    /\ returned' = Ptr([call |-> "respond", status |-> 400, error |-> error])
    /\ http' = NoRequest
    /\ UNCHANGED log

\* lines 54-75 without tokenEstimate < 0
ServeHTTP_NoSign(clientID, header) ==
    /\ http.pc = "idle"
    /\ IF clientID = "" \/ header = <<>>
       THEN BadRequest("missing_header")
       ELSE IF ParseInt(header).err # "nil"
       THEN BadRequest("invalid_header")
       ELSE /\ returned' = Nil
            /\ log' = <<>>
            /\ http' = [pc |-> "call", clientID |-> clientID,
                        tokenEstimate |-> ParseInt(header).n, startTime |-> now]
    /\ UNCHANGED <<now, clients, heap, stats, thr, ops, admitted, bucket, metrics, locks>>

\* lines 54-75: a request arrives; the headers are read and validated
ServeHTTP(clientID, header) ==
    /\ http.pc = "idle"
    /\ IF clientID = "" \/ header = <<>>
       THEN BadRequest("missing_header")
       ELSE IF ParseInt(header).err # "nil" \/ ParseInt(header).n < 0
       THEN BadRequest("invalid_header")
       ELSE /\ returned' = Nil
            /\ log' = <<>>
            /\ http' = [pc |-> "call", clientID |-> clientID,
                        tokenEstimate |-> ParseInt(header).n, startTime |-> now]
    /\ UNCHANGED <<now, clients, heap, stats, thr, ops, admitted, bucket, metrics, locks>>

\* line 78: the handler calls CheckAndConsume, on its own goroutine
CallCheckAndConsume ==
    /\ http.pc = "call"
    /\ Lookup(Caller, http.clientID, http.tokenEstimate)
    /\ http' = [http EXCEPT !.pc = "decide"]
    /\ UNCHANGED <<log, admitted, bucket, metrics, locks>>

\* what CheckAndConsume returned, as the log has it
Verdict ==
    [call |-> "CheckAndConsume", clientID |-> Deref(returned').clientID,
     err |-> Deref(returned').err]

\* lines 78-85 with every verdict taken for nil
AfterCheckAndConsume_Forward ==
    /\ http.pc = "decide"
    /\ IF returned' = Nil
       THEN UNCHANGED <<http, log>>
       ELSE /\ http' = [http EXCEPT !.pc = "forward"]
            /\ Event(Verdict)
    /\ UNCHANGED <<admitted, bucket, metrics, locks>>

\* lines 78-85: CheckAndConsume goes on; when it returns an error the handler
\* writes 429 with the error's type and is done, when it returns nil the
\* handler goes on to forward, and when it panics the request is aborted
AfterCheckAndConsume ==
    /\ http.pc = "decide"
    /\ IF returned' = Nil
       THEN UNCHANGED <<http, log>>
       ELSE IF Deref(returned').err = "nil"
       THEN /\ http' = [http EXCEPT !.pc = "forward"]
            /\ Event(Verdict)
       ELSE IF Deref(returned').err = "panic"
       THEN /\ http' = NoRequest
            /\ Event(Verdict)
       ELSE /\ http' = NoRequest
            /\ log' = log \o <<Verdict, [call |-> "respond", clientID |-> http.clientID,
                                         status |-> 429, error |-> Deref(returned').err]>>
    /\ UNCHANGED <<admitted, bucket, metrics, locks>>

\* line 91: the upstream has answered
Forward ==
    /\ http.pc = "forward"
    /\ http' = [http EXCEPT !.pc = "latency"]
    /\ Event([call |-> "forward", clientID |-> http.clientID])
    /\ returned' = Nil
    /\ UNCHANGED <<now, clients, heap, stats, thr, ops, admitted, bucket, metrics, locks>>

\* lines 94-95: float64(time.Since(startTime).Milliseconds())
RecordLatency ==
    /\ http.pc = "latency"
    /\ UpdateLatencyBody(http.clientID, (now - http.startTime) * 1000)
    /\ http' = NoRequest
    /\ Event([call |-> "UpdateLatency", clientID |-> http.clientID,
              latencyMs |-> (now - http.startTime) * 1000])
    /\ returned' = Nil
    /\ UNCHANGED <<now, clients, heap, thr, ops, admitted, bucket, metrics, locks>>

\* the handler serves one request after the other while the control plane
\* configures and deletes clients; the upstream takes its time
NextProxy ==
    \/ \E c \in ClientHeaders, h \in TokenHeaders : ServeHTTP(c, h)
    \/ CallCheckAndConsume
    \/ AutoCreate(Caller) /\ AfterCheckAndConsume
    \/ Relookup(Caller) /\ AfterCheckAndConsume
    \/ EnsureStats(Caller) /\ AfterCheckAndConsume
    \/ ReadConfig(Caller) /\ AfterCheckAndConsume
    \/ CheckRPM(Caller) /\ AfterCheckAndConsume
    \/ CheckTPM(Caller) /\ AfterCheckAndConsume
    \/ DropRPM(Caller) /\ AfterCheckAndConsume
    \/ DropTPM(Caller) /\ AfterCheckAndConsume
    \/ Success(Caller) /\ AfterCheckAndConsume
    \/ Forward
    \/ RecordLatency
    \/ \E config \in ClientConfig : SetClientConfig(config) /\ UNCHANGED aux
    \/ \E c \in ClientIds : DeleteClient(c) /\ UNCHANGED aux
    \/ http.pc = "forward" /\ Tick /\ UNCHANGED aux

SpecProxy == Init /\ [][NextProxy]_vars

\* ------------------------------------------------- the Prometheus exporter

\* the children of the six metric vectors that carry one client's label; a
\* child exists from its first WithLabelValues on, and requestDuration is
\* the histogram's number of observations
NewChildren ==
    [requestsTotal    |-> [success |-> 0, total |-> 0],
     requestsDropped  |-> [rpm |-> 0, tpm |-> 0],
     tokensUsed       |-> 0,
     tokensRemaining  |-> [rpm |-> 0, tpm |-> 0],
     requestDuration  |-> 0,
     bucketsRemaining |-> [rpm |-> Nil, tpm |-> Nil]]

\* lines 93-101: the five Counter.Add calls of one client
AddCounters(m, stat) ==
    [m EXCEPT !.requestsTotal.success = @ + stat.SuccessRequests,
              !.requestsTotal.total   = @ + stat.TotalRequests,
              !.requestsDropped.rpm   = @ + stat.RPMDropped,
              !.requestsDropped.tpm   = @ + stat.TPMDropped,
              !.tokensUsed            = @ + stat.TokensUsed]

\* lines 104-120: the gauges and the histogram of one client
SetGauges(m, stat, configs, clientID) ==
    [m EXCEPT !.tokensRemaining.rpm  = stat.RPMRemaining,
              !.tokensRemaining.tpm  = stat.TPMRemaining,
              !.requestDuration      = IF stat.AvgLatencyMs[1] > 0 THEN @ + 1 ELSE @,
              !.bucketsRemaining.rpm =
                  IF clientID \in DOMAIN configs /\ configs[clientID].RPM # Nil
                  THEN Ptr(stat.RPMRemaining) ELSE @,
              !.bucketsRemaining.tpm =
                  IF clientID \in DOMAIN configs /\ configs[clientID].TPM # Nil
                  THEN Ptr(stat.TPMRemaining) ELSE @]

Children(clientID) ==
    IF clientID \in DOMAIN metrics THEN metrics[clientID] ELSE NewChildren

\* one cycle of the updater. Counter.Add panics on a negative value, which
\* only TokensUsed can hold: the loop, whose order is the map's, then stops
\* at that client after its four request counters, the clients in done
\* having been exported whole.
UpdateMetrics ==
    /\ ops < MaxOps
    /\ ops' = ops + 1
    /\ GetAllStatsBody
    /\ LET statsNow == GetAllStatsReturn
           configs  == GetAllClientsReturn
           whole(c) == SetGauges(AddCounters(Children(c), statsNow[c]), statsNow[c], configs, c)
           bad      == {c \in DOMAIN statsNow : statsNow[c].TokensUsed < 0}
       IN  /\ IF bad = {}
              THEN /\ metrics' = [c \in DOMAIN metrics \cup DOMAIN statsNow |->
                                     IF c \in DOMAIN statsNow THEN whole(c) ELSE metrics[c]]
                   /\ returned' = Nil
              ELSE \E c \in bad : \E done \in SUBSET (DOMAIN statsNow \ {c}) :
                   /\ metrics' = [d \in DOMAIN metrics \cup done \cup {c} |->
                          IF d \in done THEN whole(d)
                          ELSE IF d = c
                          THEN [AddCounters(Children(c), statsNow[c])
                                    EXCEPT !.tokensUsed = Children(c).tokensUsed]
                          ELSE metrics[d]]
                   /\ returned' = Ptr([call |-> "UpdateMetrics", err |-> "panic"])
           /\ log' = <<[call |-> "UpdateMetrics", stats |-> statsNow]>>
    /\ UNCHANGED <<now, clients, thr, admitted, bucket, http, locks>>

\* the updater's cycles between the calls of one caller; the client is
\* configured, or not, before the first call
NextExport ==
    \/ \E config \in ClientConfig : ops = 0 /\ SeqSetClientConfig(config)
    \/ \E c \in ClientIds, w \in Weights : Lookup(Caller, c, w) /\ UNCHANGED aux
    \/ AutoCreate(Caller) /\ UNCHANGED aux
    \/ Relookup(Caller) /\ UNCHANGED aux
    \/ EnsureStats(Caller) /\ UNCHANGED aux
    \/ ReadConfig(Caller) /\ UNCHANGED aux
    \/ CheckRPM(Caller) /\ UNCHANGED aux
    \/ CheckTPM(Caller) /\ UNCHANGED aux
    \/ DropRPM(Caller) /\ UNCHANGED aux
    \/ DropTPM(Caller) /\ UNCHANGED aux
    \/ Success(Caller) /\ UNCHANGED aux
    \/ \E c \in ClientIds, ms \in LatencySamples :
           Quiet /\ UpdateLatency(c, ms) /\ UNCHANGED aux
    \/ \E c \in ClientIds : Quiet /\ DeleteClient(c) /\ UNCHANGED aux
    \/ Quiet /\ UpdateMetrics
    \/ Quiet /\ Tick /\ UNCHANGED aux

SpecExport == Init /\ [][NextExport]_vars

\* ------------------------------------------- requests of the largest weight

\* Next, and requests whose X-Token-Estimate is the largest int64
NextWide ==
    \/ Next
    \/ \E c \in ClientIds : Lookup(Caller, c, MaxInt64) /\ UNCHANGED aux

SpecWide == Init /\ [][NextWide]_vars

\* ------------------------------------------------ the locks of two tenants

\* the lock the next statement of CheckAndConsume in goroutine t takes:
\* Manager.mutex (read or write), the ClientLimiter's mutex, or the mutex of
\* one of its buckets; obj is the ClientLimiter the lock belongs to
WantsLock(t) ==
    LET pc == thr[t].pc IN
    IF pc \in {"create", "mkstats", "drop_rpm", "drop_tpm", "success"}
    THEN [lock |-> "m.Lock", obj |-> 0]
    ELSE IF pc \in {"relookup", "getstats"}
    THEN [lock |-> "m.RLock", obj |-> 0]
    ELSE IF pc = "config" /\ thr[t].client # Nil
    THEN [lock |-> "client.RLock", obj |-> Deref(thr[t].client)]
    ELSE IF pc = "rpm" /\ RPMLimited(Deref(heap[Deref(thr[t].client)]))
    THEN [lock |-> "rpmBucket.Lock", obj |-> Deref(thr[t].client)]
    ELSE IF pc = "tpm" /\ TPMLimited(Deref(heap[Deref(thr[t].client)]))
    THEN [lock |-> "tpmBucket.Lock", obj |-> Deref(thr[t].client)]
    ELSE Unlocked

\* sync.RWMutex and sync.Mutex: a held lock that keeps a wanted one waiting
Blocks(held, wanted) ==
    \/ wanted.lock = "m.Lock" /\ held.lock \in {"m.Lock", "m.RLock"}
    \/ wanted.lock = "m.RLock" /\ held.lock = "m.Lock"
    \/ wanted.lock \in {"rpmBucket.Lock", "tpmBucket.Lock"} /\ held = wanted

\* goroutine t is inside CheckAndConsume, about to take a lock
Waiting(t) == thr[t].pc # "idle" /\ locks[t] = Unlocked /\ WantsLock(t) # Unlocked

\* t takes the lock once no other goroutine holds one that blocks it
Acquire(t) ==
    /\ Waiting(t)
    /\ \A u \in Threads \ {t} : ~Blocks(locks[u], WantsLock(t))
    /\ locks' = [locks EXCEPT ![t] = WantsLock(t)]
    /\ returned' = Nil
    /\ UNCHANGED <<now, clients, heap, stats, thr, ops, admitted, bucket, log, http, metrics>>

\* t runs the statements under the lock it holds and unlocks
Release(t) ==
    /\ locks[t] = WantsLock(t)
    /\ locks' = [locks EXCEPT ![t] = Unlocked]
    /\ UNCHANGED <<admitted, bucket, log, http, metrics>>

\* lines 35-38 as one step, taken while nobody holds Manager.mutex for writing
LockedLookup(t, clientID, tokenEstimate) ==
    /\ \A u \in Threads \ {t} : ~Blocks(locks[u], [lock |-> "m.RLock", obj |-> 0])
    /\ Lookup(t, clientID, tokenEstimate)
    /\ UNCHANGED aux

\* two request goroutines and two tenants; one of the tenants is configured,
\* or not, before the first request
NextLocks ==
    \/ \E config \in ClientConfig : ops = 0 /\ SetClientConfig(config) /\ UNCHANGED aux
    \/ \E t \in Threads, c \in Tenants, w \in {1, MaxWeight} : LockedLookup(t, c, w)
    \/ \E t \in Threads : Acquire(t)
    \/ \E t \in Threads : AutoCreate(t) /\ Release(t)
    \/ \E t \in Threads : Relookup(t) /\ Release(t)
    \/ \E t \in Threads : EnsureStats(t) /\ Release(t)
    \/ \E t \in Threads : ReadConfig(t) /\ Release(t)
    \/ \E t \in Threads : CheckRPM(t) /\ Release(t)
    \/ \E t \in Threads : CheckTPM(t) /\ Release(t)
    \/ \E t \in Threads : DropRPM(t) /\ Release(t)
    \/ \E t \in Threads : DropTPM(t) /\ Release(t)
    \/ \E t \in Threads : Success(t) /\ Release(t)

SpecLocks == InitRest /\ [][NextLocks]_vars

\* ------------------------------------------- concurrent calls and no others

\* every goroutine is between two calls
AllIdle == \A t \in Threads : thr[t].pc = "idle"

\* the request goroutines call CheckAndConsume at the same time, with no time
\* elapsing and no SetClientConfig or DeleteClient beside them; the client is
\* configured, or not, before the first call, and every return is logged
NextPar ==
    \/ \E config \in ClientConfig : ops = 0 /\ SeqSetClientConfig(config)
    \/ \E t \in Threads, c \in ClientIds, w \in Weights :
           Lookup(t, c, w) /\ LogReturn /\ UNCHANGED side
    \/ \E t \in Threads : AutoCreate(t) /\ LogReturn /\ UNCHANGED side
    \/ \E t \in Threads : Relookup(t) /\ LogReturn /\ UNCHANGED side
    \/ \E t \in Threads : EnsureStats(t) /\ LogReturn /\ UNCHANGED side
    \/ \E t \in Threads : ReadConfig(t) /\ LogReturn /\ UNCHANGED side
    \/ \E t \in Threads : CheckRPM(t) /\ LogReturn /\ UNCHANGED side
    \/ \E t \in Threads : CheckTPM(t) /\ LogReturn /\ UNCHANGED side
    \/ \E t \in Threads : DropRPM(t) /\ LogReturn /\ UNCHANGED side
    \/ \E t \in Threads : DropTPM(t) /\ LogReturn /\ UNCHANGED side
    \/ \E t \in Threads : Success(t) /\ LogReturn /\ UNCHANGED side

SpecPar == Init /\ [][NextPar]_vars

\* ------------------------------------ every operation, with the locks it takes

\* nobody holds Manager.mutex in a way that keeps out a Lock ("m.Lock") or
\* an RLock ("m.RLock")
MFree(lock) == \A u \in Threads : ~Blocks(locks[u], [lock |-> lock, obj |-> 0])

\* nobody holds the mutex of a bucket of the ClientLimiter that the registry
\* has for clientID
BucketsFree(clientID) ==
    \A u \in Threads :
        locks[u].lock \in {"rpmBucket.Lock", "tpmBucket.Lock"} =>
            clients[clientID] # Ptr(locks[u].obj)

\* goroutine t calls GetClientStats(clientID): its first statement is
\* m.mutex.RLock()
CallGetClientStats(t, clientID) ==
    /\ thr[t].pc = "idle"
    /\ \A u \in Threads : t \in After(u) => thr[u].pc # "idle"
    /\ ops < MaxOps
    /\ ops' = ops + 1
    /\ thr' = [thr EXCEPT ![t] = [Idle EXCEPT !.pc = "getstats", !.clientID = clientID]]
    /\ returned' = Nil
    /\ UNCHANGED <<now, clients, heap, stats>>

\* lines 147-165 under the read lock: the refresh, which takes the
\* ClientLimiter's read lock and each bucket's mutex in turn, and the return
RefreshStats(t) ==
    /\ thr[t].pc = "getstats"
    /\ BucketsFree(thr[t].clientID)
    /\ GetClientStatsBody(thr[t].clientID)
    /\ thr' = [thr EXCEPT ![t] = Idle]
    /\ returned' = Nil
    /\ UNCHANGED <<now, clients, ops>>

\* the steps of goroutine t inside an operation
Run(t) ==
    \/ Acquire(t)
    \/ AutoCreate(t) /\ Release(t)
    \/ Relookup(t) /\ Release(t)
    \/ EnsureStats(t) /\ Release(t)
    \/ ReadConfig(t) /\ Release(t)
    \/ CheckRPM(t) /\ Release(t)
    \/ CheckTPM(t) /\ Release(t)
    \/ DropRPM(t) /\ Release(t)
    \/ DropTPM(t) /\ Release(t)
    \/ Success(t) /\ Release(t)
    \/ RefreshStats(t) /\ Release(t)

\* two goroutines in CheckAndConsume and GetClientStats, lock by lock, and
\* the other operations, each in one step when the locks it takes are free;
\* the client is configured, or not, before the first call
NextLocked ==
    \/ \E config \in ClientConfig : ops = 0 /\ SetClientConfig(config) /\ UNCHANGED aux
    \/ \E t \in Threads, c \in ClientIds, w \in Weights : LockedLookup(t, c, w)
    \/ \E t \in Threads, c \in ClientIds : CallGetClientStats(t, c) /\ UNCHANGED aux
    \/ \E t \in Threads : Run(t)
    \/ \E c \in ClientIds : MFree("m.Lock") /\ DeleteClient(c) /\ UNCHANGED aux
    \/ \E c \in ClientIds, ms \in LatencySamples :
           MFree("m.Lock") /\ UpdateLatency(c, ms) /\ UNCHANGED aux
    \/ \E c \in ClientIds : MFree("m.RLock") /\ GetClientConfig(c) /\ UNCHANGED aux
    \/ MFree("m.RLock") /\ GetAllClients /\ UNCHANGED aux
    \/ /\ MFree("m.RLock")
       /\ \A c \in ClientIds : BucketsFree(c)
       /\ GetAllStats
       /\ UNCHANGED aux

SpecLocked == Init /\ [][NextLocked]_vars

\* the same, each goroutine going on as long as it can
SpecFair == SpecLocked /\ \A t \in Threads : WF_vars(Run(t))

\* ------------------------------------------- the TokenBucket in float64

\* tokens and refillRate are float64: every division, product and sum is
\* rounded to the nearest value of 53 significant bits, ties to even.  The
\* significand is narrowed to MantissaBits bits so that the rounding is within
\* reach.  A value is a whole number of units of 2^-GridBits of a token: the
\* last bit of 1 / 60.0, the smallest rate above 0.
GridBits == MantissaBits + 5
One == 2 ^ GridBits

\* the number of bits of x >= 0
RECURSIVE BitLen(_)
BitLen(x) == IF x = 0 THEN 0 ELSE 1 + BitLen(x \div 2)

\* num / den units, rounded to MantissaBits significant bits, ties to even
\* (num / den is a whole number, or has MantissaBits bits or more before the point)
Float(num, den) ==
    LET e == BitLen(num \div den)
        ulp == IF e > MantissaBits THEN 2 ^ (e - MantissaBits) ELSE 1
        f == num \div (den * ulp)
        r == num % (den * ulp)
    IN  IF 2 * r > den * ulp \/ (2 * r = den * ulp /\ f % 2 = 1)
        THEN (f + 1) * ulp
        ELSE f * ulp

NewTokenBucketFloat(capacity, refillPerMinute, t) ==
    [capacity   |-> capacity,
     tokens     |-> capacity * One,
     refillRate |-> Float(refillPerMinute * One, SecondsPerMinute),
     lastRefill |-> t]

refillFloat(tb, t) ==
    LET elapsed == t - tb.lastRefill
        tokensToAdd == Float(elapsed * tb.refillRate, 1)
    IN  IF elapsed > 0
        THEN [tb EXCEPT !.tokens = min(Float(tb.tokens + tokensToAdd, 1),
                                       tb.capacity * One),
                        !.lastRefill = t]
        ELSE tb

TryConsumeFloat(tb, tokens, t) ==
    LET r == refillFloat(tb, t) IN
    IF r.tokens >= tokens * One
    THEN [ok |-> TRUE,  tb |-> [r EXCEPT !.tokens = Float(@ - tokens * One, 1)]]
    ELSE [ok |-> FALSE, tb |-> r]

GetRemainingTokensFloat(tb, t) ==
    LET r == refillFloat(tb, t) IN
    [n |-> r.tokens \div One, tb |-> r]

\* NewTokenBucket(capacity, refillPerMinute) at time 0
InitFloat ==
    /\ NewManager
    /\ admitted = <<>>
    /\ log = <<>>
    /\ http = NoRequest
    /\ metrics = NoMetrics
    /\ locks = NoLocks
    /\ \E capacity \in Capacities, refillPerMinute \in Capacities :
           bucket = Ptr(NewTokenBucketFloat(capacity, refillPerMinute, 0))

\* tb.TryConsume(tokens), as CheckAndConsume calls it; the log keeps the call,
\* its time and its result
TryConsumeFloatCall(tokens) ==
    /\ Len(log) < MaxOps
    /\ bucket' = Ptr(TryConsumeFloat(Deref(bucket), tokens, now).tb)
    /\ log' = Append(log, [call |-> "TryConsume", tokens |-> tokens, at |-> now,
                           result |-> TryConsumeFloat(Deref(bucket), tokens, now).ok])
    /\ returned' = Ptr([call |-> "TryConsume", tokens |-> tokens,
                        result |-> TryConsumeFloat(Deref(bucket), tokens, now).ok])
    /\ UNCHANGED <<now, clients, heap, stats, thr, ops, admitted, http, metrics, locks>>

\* tb.GetRemainingTokens(), as GetClientStats and GetAllStats call it
GetRemainingTokensFloatCall ==
    /\ bucket' = Ptr(GetRemainingTokensFloat(Deref(bucket), now).tb)
    /\ returned' = Ptr([call |-> "GetRemainingTokens",
                        result |-> GetRemainingTokensFloat(Deref(bucket), now).n])
    /\ UNCHANGED <<now, clients, heap, stats, thr, ops, admitted, log, http, metrics, locks>>

\* the wall clock advances
Pause ==
    /\ now + PauseSeconds <= Horizon
    /\ now' = now + PauseSeconds
    /\ returned' = Nil
    /\ UNCHANGED <<clients, heap, stats, thr, ops, aux>>

NextFloat ==
    \/ \E tokens \in Weights : TryConsumeFloatCall(tokens)
    \/ GetRemainingTokensFloatCall
    \/ Pause

SpecFloat == InitFloat /\ [][NextFloat]_vars

\* the bucket as NewTokenBucket made it
Started == [Deref(bucket) EXCEPT !.tokens = Deref(bucket).capacity * One, !.lastRefill = 0]

\* the bucket after the first k calls of the log, made at their times with no
\* GetRemainingTokens in between
RECURSIVE Unread(_)
Unread(k) ==
    IF k = 0
    THEN Started
    ELSE TryConsumeFloat(Unread(k - 1), log[k].tokens, log[k].at).tb

\* ------------------------------------------------------------- properties

\* goroutine t takes the step
Steps(t) == thr'[t] # thr[t]

\* the ClientLimiter goroutine t read from the registry, and its address
Held(t) == Deref(heap[Deref(thr[t].client)])
HeldOid(t) == Deref(thr[t].client)

\* a bucket's level at the present time, once refilled
Level(b) == min(b.tokens + (now - b.lastRefill) * b.refillRate,
                b.capacity * SecondsPerMinute)

\* the step leaves every bucket of t's ClientLimiter as it is
BucketsUntouched(t) == heap'[HeldOid(t)] \in {heap[HeldOid(t)], Nil}

\* the step returns err to goroutine t
Returns(t, err) == returned' # Nil /\ Deref(returned').t = t /\ Deref(returned').err = err

\* the statistics of clientID in the registry
St(c) == Deref(stats[c])

\* C1: CheckAndConsume always returns a definite verdict (nil, ErrRPMExceeded
\* or ErrTPMExceeded) and never aborts, under every interleaving with
\* SetClientConfig, DeleteClient, GetClientStats and UpdateLatency.
C1_DecideReturnsVerdict ==
    returned # Nil => Deref(returned).err \in {"nil", "rpm_exceeded", "tpm_exceeded"}

\* C2: in every reachable state every ClientStats of the registry has
\* TotalRequests = SuccessRequests + DroppedRequests and
\* DroppedRequests = RPMDropped + TPMDropped.
C2_StatsSums ==
    \A c \in ClientIds : stats[c] # Nil =>
        /\ Deref(stats[c]).TotalRequests
               = Deref(stats[c]).SuccessRequests + Deref(stats[c]).DroppedRequests
        /\ Deref(stats[c]).DroppedRequests
               = Deref(stats[c]).RPMDropped + Deref(stats[c]).TPMDropped

\* C2's case: a record that has counted an admission and a drop
C2_Witness ==
    \E c \in ClientIds :
        /\ stats[c] # Nil
        /\ Deref(stats[c]).SuccessRequests >= 1
        /\ Deref(stats[c]).DroppedRequests >= 1

\* C3: after every TryConsume and GetRemainingTokens call, whatever time has
\* elapsed between the calls, the bucket's level is at least 0 and at most
\* its capacity.
C3_LevelInRange ==
    bucket # Nil =>
        /\ 0 <= Deref(bucket).tokens
        /\ Deref(bucket).tokens <= Deref(bucket).capacity * SecondsPerMinute

\* C3's case: a bucket that was consumed from and refilled after some time
C3_Witness ==
    /\ bucket # Nil
    /\ returned # Nil
    /\ Deref(bucket).lastRefill > 0
    /\ 0 < Deref(bucket).tokens
    /\ Deref(bucket).tokens < Deref(bucket).capacity * SecondsPerMinute

\* C5: TryConsume(tokens) is all or nothing: with the level as refilled at the
\* time of the call, if level >= tokens the level goes down by exactly tokens
\* and the call returns true, otherwise the level stays at its refilled value
\* and the call returns false.
C5_AllOrNothing ==
    [][(returned' # Nil /\ Deref(returned').call = "TryConsume") =>
          LET level  == min(Deref(bucket).tokens
                              + (now - Deref(bucket).lastRefill) * Deref(bucket).refillRate,
                            Deref(bucket).capacity * SecondsPerMinute)
              amount == Deref(returned').tokens * SecondsPerMinute
          IN  IF level >= amount
              THEN /\ Deref(returned').result = TRUE
                   /\ Deref(bucket').tokens = level - amount
              ELSE /\ Deref(returned').result = FALSE
                   /\ Deref(bucket').tokens = level
      ]_vars

\* C5's case: a refused call that leaves a level short of the amount in place
C5_Witness ==
    /\ returned # Nil
    /\ Deref(returned).call = "TryConsume"
    /\ Deref(returned).result = FALSE
    /\ Deref(bucket).tokens > 0

C6_NoLimitNoReject ==
    [][\A t \in Threads :
          /\ Returns(t, "rpm_exceeded") => Held(t).config.RPM # Nil
          /\ Returns(t, "tpm_exceeded") => Held(t).config.TPM # Nil
      ]_vars

\* C6's case: a client without request-rate limit whose call is rejected, for
\* the token rate, after earlier calls
C6_Witness ==
    /\ returned # Nil
    /\ Deref(returned).err = "tpm_exceeded"
    /\ clients[Deref(returned).clientID] # Nil
    /\ Deref(heap[Deref(clients[Deref(returned).clientID])]).config.RPM = Nil
    /\ St(Deref(returned).clientID).TotalRequests >= 2

\* C7: a call that finds the client's Enabled flag false goes straight to the
\* success record, touches no bucket and, the client being in the registry,
\* returns nil and adds 1 to TotalRequests and SuccessRequests and
\* tokenEstimate to TokensUsed, whatever the limits and the bucket levels.
C7_DisabledBypass ==
    [][\A t \in Threads :
          (/\ Steps(t)
           /\ thr[t].pc \in {"config", "rpm", "tpm", "drop_rpm", "drop_tpm", "success"}
           /\ thr[t].client # Nil
           /\ ~Held(t).config.Enabled)
          => /\ thr[t].pc \in {"config", "success"}
             /\ BucketsUntouched(t)
             /\ thr[t].pc = "config" => thr'[t].pc = "success" /\ stats' = stats
             /\ (thr[t].pc = "success" /\ clients[thr[t].clientID] # Nil)
                  => /\ Returns(t, "nil")
                     /\ stats' = [stats EXCEPT ![thr[t].clientID] = Ptr(
                            [St(thr[t].clientID) EXCEPT
                                !.TotalRequests   = @ + 1,
                                !.SuccessRequests = @ + 1,
                                !.TokensUsed      = @ + thr[t].tokenEstimate,
                                !.LastRequestTime = now])]
      ]_vars

\* C7's case: a disabled client with an empty bucket has a request admitted
C7_Witness ==
    /\ returned # Nil
    /\ Deref(returned).err = "nil"
    /\ Deref(returned).tokenEstimate > 0
    /\ clients[Deref(returned).clientID] # Nil
    /\ LET cl == Deref(heap[Deref(clients[Deref(returned).clientID])]) IN
           /\ ~cl.config.Enabled
           /\ cl.tpmBucket # Nil
           /\ Deref(cl.tpmBucket).tokens < Deref(returned).tokenEstimate * SecondsPerMinute
    /\ St(Deref(returned).clientID).SuccessRequests >= 1

\* C8: when the request bucket of an enabled client cannot supply 1 unit, the
\* call goes from the request check to the drop record without reaching the
\* token check: it leaves the token bucket as it is, and, the client being in
\* the registry, returns ErrRPMExceeded and adds exactly 1 to TotalRequests,
\* DroppedRequests and RPMDropped, SuccessRequests and TokensUsed unchanged.
C8_RPMReject ==
    [][\A t \in Threads :
          /\ (/\ Steps(t)
              /\ thr[t].pc = "rpm"
              /\ Held(t).config.RPM # Nil
              /\ Held(t).rpmBucket # Nil
              /\ Level(Deref(Held(t).rpmBucket)) < SecondsPerMinute)
             => /\ thr'[t].pc = "drop_rpm"
                /\ Deref(heap'[HeldOid(t)]).tpmBucket = Held(t).tpmBucket
                /\ stats' = stats
                /\ returned' = Nil
          /\ (Steps(t) /\ thr[t].pc = "drop_rpm")
             => /\ BucketsUntouched(t)
                /\ clients[thr[t].clientID] # Nil
                     => /\ Returns(t, "rpm_exceeded")
                        /\ stats' = [stats EXCEPT ![thr[t].clientID] = Ptr(
                               [St(thr[t].clientID) EXCEPT
                                   !.TotalRequests   = @ + 1,
                                   !.DroppedRequests = @ + 1,
                                   !.RPMDropped      = @ + 1,
                                   !.LastRequestTime = now])]
      ]_vars

\* C8's case: a request rejected for the request rate while the token bucket
\* of the client is there, full
C8_Witness ==
    /\ returned # Nil
    /\ Deref(returned).err = "rpm_exceeded"
    /\ clients[Deref(returned).clientID] # Nil
    /\ LET cl == Deref(heap[Deref(clients[Deref(returned).clientID])]) IN
           /\ cl.tpmBucket # Nil
           /\ Deref(cl.tpmBucket).tokens = Deref(cl.tpmBucket).capacity * SecondsPerMinute
    /\ St(Deref(returned).clientID).RPMDropped = 1
    /\ St(Deref(returned).clientID).SuccessRequests = 1

Decide(i, clientID, tokenEstimate) ==
    /\ i <= Len(log)
    /\ log[i].call = "CheckAndConsume"
    /\ log[i].clientID = clientID
    /\ log[i].tokenEstimate = tokenEstimate

\* the log starts with a SetClientConfig that gives a limit on the dimension
Configured(dimension) ==
    /\ Len(log) >= 1
    /\ log[1].call = "SetClientConfig"
    /\ log[1].config[dimension] # Nil

\* every bucket of the ClientLimiter of clientID is at its capacity, as of now
BucketsFull(clientID) ==
    LET cl == Deref(heap[Deref(clients[clientID])]) IN
        /\ cl.rpmBucket # Nil =>
               /\ Deref(cl.rpmBucket).tokens = Deref(cl.rpmBucket).capacity * SecondsPerMinute
               /\ Deref(cl.rpmBucket).lastRefill = now
        /\ cl.tpmBucket # Nil =>
               /\ Deref(cl.tpmBucket).tokens = Deref(cl.tpmBucket).capacity * SecondsPerMinute
               /\ Deref(cl.tpmBucket).lastRefill = now

\* what C11 says of a log that starts with SetClientConfig(config), TPM = W
ResetThenBurst ==
    LET id == log[1].config.ClientID
        W  == Deref(log[1].config.TPM)
    IN  /\ (Len(log) = 1 /\ Quiet) => BucketsFull(id)
        /\ Decide(2, id, W) => log[2].err = "nil"
        /\ (W > 0 /\ Decide(2, id, W) /\ Decide(3, id, W))
               => log[3].err \in {"rpm_exceeded", "tpm_exceeded"}

\* C11 as claimed: after SetClientConfig with token limit W, whatever the
\* buckets it replaces had given out, the new buckets are full, and with no
\* time elapsing the first CheckAndConsume(W) returns nil and, for W > 0, the
\* second is rejected.
C11_ResetThenBurst ==
    Configured("TPM") => ResetThenBurst

\* C11 as amended: the same for a SetClientConfig whose Enabled flag is true.
C11_ResetThenBurstEnabled ==
    (Configured("TPM") /\ log[1].config.Enabled) => ResetThenBurst

\* C11's case: a client whose buckets had given out tokens is configured again
\* with token limit W > 0, then admitted once at weight W and rejected next
C11_Witness ==
    /\ Configured("TPM")
    /\ log[1].config.Enabled
    /\ log[1].replaced = "used"
    /\ Deref(log[1].config.TPM) > 0
    /\ Decide(2, log[1].config.ClientID, Deref(log[1].config.TPM))
    /\ Decide(3, log[1].config.ClientID, Deref(log[1].config.TPM))
    /\ log[2].err = "nil"
    /\ log[3].err = "tpm_exceeded"

\* the counters and the average of a ClientStats
Counters(st) ==
    <<st.TotalRequests, st.SuccessRequests, st.DroppedRequests, st.RPMDropped,
      st.TPMDropped, st.TokensUsed, st.AvgLatencyMs>>

\* the step is SetClientConfig on clientID with the configuration the registry
\* holds after it, called from outside or by
\* CheckAndConsume for a client it does not find
ConfigStep(clientID) ==
    \/ /\ clients'[clientID] # Nil
       /\ heap'[Deref(clients'[clientID])] # Nil
       /\ LET config == Deref(heap'[Deref(clients'[clientID])]).config
          IN  config.ClientID = clientID /\ SetClientConfig(config)
    \/ \E t \in Threads : thr[t].clientID = clientID /\ AutoCreate(t)

\* C12: SetClientConfig on a client that has a ClientStats leaves every counter
\* of it (TotalRequests, SuccessRequests, DroppedRequests, RPMDropped,
\* TPMDropped, TokensUsed, AvgLatencyMs) as it is, and on a client without one
\* creates a ClientStats whose counters are all 0.
C12_ConfigKeepsStats ==
    [][\A c \in ClientIds : ConfigStep(c) =>
          /\ stats'[c] # Nil
          /\ Counters(Deref(stats'[c])) =
                 IF stats[c] # Nil THEN Counters(Deref(stats[c]))
                 ELSE <<0, 0, 0, 0, 0, 0, Zero>>
      ]_vars

\* C12's case: an enabled client whose one request, of positive weight and
\* admitted at this instant, and whose average are on record, and whose token
\* bucket is full all the same: SetClientConfig has come after them
C12_Witness ==
    \E c \in ClientIds :
        /\ clients[c] # Nil
        /\ stats[c] # Nil
        /\ St(c).TotalRequests = 1
        /\ St(c).SuccessRequests = 1
        /\ St(c).TokensUsed >= 1
        /\ St(c).AvgLatencyMs # Zero
        /\ St(c).LastRequestTime = now
        /\ LET cl == Deref(heap[Deref(clients[c])]) IN
               /\ cl.config.Enabled
               /\ cl.tpmBucket # Nil
               /\ Deref(cl.tpmBucket).tokens = Deref(cl.tpmBucket).capacity * SecondsPerMinute

\* C13: in every reachable state, for every client of the registry, the
\* request bucket exists exactly when the configured RPM is present and > 0,
\* the token bucket exactly when the configured TPM is present and > 0, and a
\* bucket that exists has the configured limit for capacity.
C13_BucketIffPositiveLimit ==
    \A c \in ClientIds : clients[c] # Nil =>
        LET cl == Deref(heap[Deref(clients[c])]) IN
            /\ cl.rpmBucket # Nil <=> (cl.config.RPM # Nil /\ Deref(cl.config.RPM) > 0)
            /\ cl.tpmBucket # Nil <=> (cl.config.TPM # Nil /\ Deref(cl.config.TPM) > 0)
            /\ cl.rpmBucket # Nil => Deref(cl.rpmBucket).capacity = Deref(cl.config.RPM)
            /\ cl.tpmBucket # Nil => Deref(cl.tpmBucket).capacity = Deref(cl.config.TPM)

\* C13's case: a client with a limit of 0 and no bucket for it, and a positive
\* limit with its bucket, after requests have gone through
C13_Witness ==
    \E c \in ClientIds :
        /\ clients[c] # Nil
        /\ stats[c] # Nil
        /\ St(c).TotalRequests >= 1
        /\ LET cl == Deref(heap[Deref(clients[c])]) IN
               /\ cl.config.RPM = Ptr(0)
               /\ cl.rpmBucket = Nil
               /\ cl.tpmBucket # Nil
               /\ Deref(cl.tpmBucket).tokens < Deref(cl.tpmBucket).capacity * SecondsPerMinute

\* clientID is in neither map when the i-th call of the log starts: the log
\* starts at NewManager with that call, or the call before it is DeleteClient
AbsentBefore(i, clientID) ==
    \/ i = 1
    \/ i > 1 /\ log[i - 1].call = "DeleteClient" /\ log[i - 1].clientID = clientID

\* the calls of the log between the i-th and the j-th only read
ReadsBetween(i, j) ==
    \A k \in (i + 1)..(j - 1) :
        log[k].call \in {"GetClientStats", "GetClientConfig", "GetAllStats", "GetAllClients"}

\* C14: CheckAndConsume on a clientID that is in neither map returns nil for
\* every tokenEstimate >= 0; GetClientConfig then finds the client, with
\* Enabled true and RPM and TPM nil, and GetClientStats finds TotalRequests = 1
\* and SuccessRequests = 1.
C14_UnknownClientAdmitted ==
    \A i \in 1..Len(log) : \A c \in ClientIds, w \in Weights :
        (Decide(i, c, w) /\ AbsentBefore(i, c)) =>
            /\ log[i].err = "nil"
            /\ \A j \in (i + 1)..Len(log) : ReadsBetween(i, j) =>
                   /\ (log[j].call = "GetClientConfig" /\ log[j].clientID = c) =>
                          /\ log[j].found
                          /\ log[j].config = Ptr([ClientID |-> c, RPM |-> Nil,
                                                  TPM |-> Nil, Enabled |-> TRUE])
                   /\ (log[j].call = "GetClientStats" /\ log[j].clientID = c) =>
                          /\ log[j].found
                          /\ Deref(log[j].stats).TotalRequests = 1
                          /\ Deref(log[j].stats).SuccessRequests = 1

\* C14's case: a request of positive weight for a client in neither map, then
\* the client's configuration and its statistics read
C14_Witness ==
    /\ Len(log) >= 3
    /\ \E i \in 1..(Len(log) - 2) :
           /\ log[i].call = "CheckAndConsume"
           /\ log[i].tokenEstimate > 0
           /\ AbsentBefore(i, log[i].clientID)
           /\ log[i + 1].call = "GetClientConfig"
           /\ log[i + 2].call = "GetClientStats"
           /\ Deref(log[i + 2].stats).TokensUsed = log[i].tokenEstimate

\* the i-th call of the log is call(clientID)
Called(i, call, clientID) ==
    /\ i <= Len(log)
    /\ log[i].call = call
    /\ log[i].clientID = clientID

\* clientID is in the registry when the i-th call of the log starts: an
\* earlier SetClientConfig or CheckAndConsume put it there and no DeleteClient
\* has come since
PresentBefore(i, clientID) ==
    \E k \in 1..(i - 1) :
        /\ \/ log[k].call = "SetClientConfig" /\ log[k].config.ClientID = clientID
           \/ Called(k, "CheckAndConsume", clientID)
        /\ \A d \in (k + 1)..(i - 1) : ~Called(d, "DeleteClient", clientID)

\* no call of the log between the i-th and the j-th creates clientID
NoCreateBetween(i, j, clientID) ==
    \A k \in (i + 1)..(j - 1) : ~Called(k, "CheckAndConsume", clientID)

\* C15: DeleteClient on a client of the registry returns true and removes its
\* ClientLimiter and its ClientStats in the one step; a second DeleteClient
\* with no creation in between returns false; and until the client is created
\* again GetClientStats and GetClientConfig report it not found.
C15_DeleteOnce ==
    \A i \in 1..Len(log) : \A c \in ClientIds :
        Called(i, "DeleteClient", c) =>
            /\ PresentBefore(i, c) => log[i].result = TRUE
            /\ (i = Len(log) /\ Quiet) => (clients[c] = Nil /\ stats[c] = Nil)
            /\ \A j \in (i + 1)..Len(log) : NoCreateBetween(i, j, c) =>
                   /\ Called(j, "DeleteClient", c) => log[j].result = FALSE
                   /\ Called(j, "GetClientStats", c) => ~log[j].found /\ log[j].stats = Nil
                   /\ Called(j, "GetClientConfig", c) => ~log[j].found /\ log[j].config = Nil

\* C15's case: a client of the registry is deleted, deleted again, and then
\* looked for
C15_Witness ==
    \E i \in 1..Len(log) : \E c \in ClientIds :
        /\ Called(i, "DeleteClient", c)
        /\ log[i].result = TRUE
        /\ Called(i + 1, "DeleteClient", c)
        /\ log[i + 1].result = FALSE
        /\ \/ Called(i + 2, "GetClientStats", c) /\ ~log[i + 2].found
           \/ Called(i + 2, "GetClientConfig", c) /\ ~log[i + 2].found

\* the calls 2 .. n + 1 of the log are CheckAndConsume on clientID
Burst(n, clientID) ==
    /\ n + 1 <= Len(log)
    /\ \A k \in 2..(n + 1) : Called(k, "CheckAndConsume", clientID)

\* what C16 says of a log that starts with SetClientConfig(config), RPM = R
RequestBurst ==
    LET id == log[1].config.ClientID
        R  == Deref(log[1].config.RPM)
    IN  \A n \in 0..MaxOps : Burst(n, id) =>
            /\ \A k \in 2..(n + 1) :
                   log[k].err = IF k - 1 <= R THEN "nil" ELSE "rpm_exceeded"
            /\ Called(n + 2, "GetClientStats", id) =>
                   /\ log[n + 2].found
                   /\ Deref(log[n + 2].stats).TotalRequests = n
                   /\ Deref(log[n + 2].stats).SuccessRequests = min(n, R)
                   /\ Deref(log[n + 2].stats).DroppedRequests = n - min(n, R)
                   /\ Deref(log[n + 2].stats).RPMDropped = n - min(n, R)
                   /\ Deref(log[n + 2].stats).TPMDropped = 0

\* the log starts with SetClientConfig with RPM = R > 0 and TPM nil
RequestLimitOnly ==
    /\ Configured("RPM")
    /\ Deref(log[1].config.RPM) > 0
    /\ log[1].config.TPM = Nil

\* C16 as claimed: for a client configured with RPM = R > 0 and TPM nil, of N
\* CheckAndConsume calls in a row with no time elapsing the first min(N, R)
\* return nil and the others ErrRPMExceeded, and GetClientStats then reports
\* TotalRequests = N, SuccessRequests = min(N, R), DroppedRequests =
\* RPMDropped = N - min(N, R) and TPMDropped = 0.
C16_RequestBurst ==
    RequestLimitOnly => RequestBurst

\* C16 as amended: the same for a client that SetClientConfig creates, with
\* Enabled true.
C16_RequestBurstNewEnabled ==
    (RequestLimitOnly /\ log[1].config.Enabled /\ log[1].replaced = "none")
        => RequestBurst

\* C16's case: more calls than the limit, the last one rejected, and the
\* statistics read
C16_Witness ==
    /\ RequestLimitOnly
    /\ log[1].config.Enabled
    /\ log[1].replaced = "none"
    /\ \E n \in 2..MaxOps :
           /\ n > Deref(log[1].config.RPM)
           /\ Burst(n, log[1].config.ClientID)
           /\ log[n + 1].err = "rpm_exceeded"
           /\ Called(n + 2, "GetClientStats", log[1].config.ClientID)

\* what C17 says of a log that starts with SetClientConfig(config), TPM = W
WeightBurst ==
    LET id == log[1].config.ClientID
        W  == Deref(log[1].config.TPM)
    IN  \A w1, w2 \in Weights :
            /\ (w1 <= W /\ Decide(2, id, w1)) => log[2].err = "nil"
            /\ (w1 <= W /\ w1 + w2 > W /\ Decide(2, id, w1) /\ Decide(3, id, w2)) =>
                   /\ log[3].err = "tpm_exceeded"
                   /\ Called(4, "GetClientStats", id) =>
                          /\ log[4].found
                          /\ Deref(log[4].stats).TPMRemaining = W - w1

\* the log starts with SetClientConfig with TPM = W and RPM nil
WeightLimitOnly ==
    /\ Configured("TPM")
    /\ log[1].config.RPM = Nil

\* C17 as claimed: for a client configured with TPM = W and RPM nil, with no
\* time elapsing, CheckAndConsume(w1) with w1 <= W returns nil, a following
\* CheckAndConsume(w2) with w1 + w2 > W returns ErrTPMExceeded, and
\* GetClientStats then reports TPMRemaining = W - w1.
C17_WeightBurst ==
    WeightLimitOnly => WeightBurst

\* C17 as amended: the same for W > 0 and Enabled true.
C17_WeightBurstPositiveEnabled ==
    (WeightLimitOnly /\ Deref(log[1].config.TPM) > 0 /\ log[1].config.Enabled)
        => WeightBurst

\* C17's case: a request of positive weight admitted, the next one rejected
\* though it is no larger than the limit, and the remaining tokens read
C17_Witness ==
    /\ WeightLimitOnly
    /\ log[1].config.Enabled
    /\ \E w1, w2 \in 1..Deref(log[1].config.TPM) :
           /\ Decide(2, log[1].config.ClientID, w1)
           /\ Decide(3, log[1].config.ClientID, w2)
           /\ log[2].err = "nil"
           /\ log[3].err = "tpm_exceeded"
           /\ Called(4, "GetClientStats", log[1].config.ClientID)
           /\ Deref(log[4].stats).TPMRemaining = Deref(log[1].config.TPM) - w1

\* what C18 says of a log that starts with SetClientConfig(config), TPM = W:
\* a call with tokenEstimate > W that gets past the request check is rejected
\* for the token rate
OversizeRejected ==
    LET id == log[1].config.ClientID
        W  == Deref(log[1].config.TPM)
    IN  \A i \in 2..Len(log) :
            (/\ Called(i, "CheckAndConsume", id)
             /\ log[i].tokenEstimate > W
             /\ log[i].err # "rpm_exceeded")
            => log[i].err = "tpm_exceeded"

\* C18 as claimed: for an enabled client, CheckAndConsume with tokenEstimate
\* above the configured TPM returns ErrTPMExceeded whenever the request check
\* passes, whatever time has elapsed since the last request.
C18_OversizeRejected ==
    (Configured("TPM") /\ log[1].config.Enabled) => OversizeRejected

\* C18 as amended: the same for a configured TPM > 0.
C18_OversizeRejectedPositive ==
    (Configured("TPM") /\ log[1].config.Enabled /\ Deref(log[1].config.TPM) > 0)
        => OversizeRejected

\* C18's case: the token bucket is emptied, a minute or more goes by, and a
\* request above the limit is rejected for the token rate
C18_Witness ==
    /\ Configured("TPM")
    /\ log[1].config.Enabled
    /\ Deref(log[1].config.TPM) > 0
    /\ Decide(2, log[1].config.ClientID, Deref(log[1].config.TPM))
    /\ log[2].err = "nil"
    /\ \E i \in 3..Len(log) :
           /\ Called(i, "CheckAndConsume", log[1].config.ClientID)
           /\ log[i].tokenEstimate > Deref(log[1].config.TPM)
           /\ log[i].at >= log[2].at + SecondsPerMinute
           /\ log[i].err = "tpm_exceeded"

\* the ClientStats of clientID that the i-th call of the log returned, nil if
\* it returned none
StatsRead(i, clientID) ==
    IF Called(i, "GetClientStats", clientID) THEN log[i].stats
    ELSE IF log[i].call = "GetAllStats" /\ clientID \in DOMAIN log[i].result
    THEN Ptr(log[i].result[clientID])
    ELSE Nil

\* C19: in a run of GetClientStats, GetAllStats, GetClientConfig and
\* GetAllClients calls with no CheckAndConsume, UpdateLatency, SetClientConfig
\* or DeleteClient in between, every ClientStats returned for a client has
\* the same counters and average, and its RPMRemaining and TPMRemaining never
\* go down from one call to a later one.
C19_ReadsIdempotent ==
    \A i, j \in 1..Len(log) : \A c \in ClientIds :
        (i < j /\ StatsRead(i, c) # Nil /\ StatsRead(j, c) # Nil) =>
            /\ Counters(Deref(StatsRead(j, c))) = Counters(Deref(StatsRead(i, c)))
            /\ Deref(StatsRead(j, c)).RPMRemaining >= Deref(StatsRead(i, c)).RPMRemaining
            /\ Deref(StatsRead(j, c)).TPMRemaining >= Deref(StatsRead(i, c)).TPMRemaining

\* C19's case: after a request has used up tokens, the statistics are read
\* through GetClientStats and, later, through GetAllStats, and the remaining
\* tokens have gone up in between
C19_Witness ==
    \E i, j \in 1..Len(log) : \E c \in ClientIds :
        /\ i < j
        /\ Called(i, "GetClientStats", c)
        /\ log[j].call = "GetAllStats"
        /\ StatsRead(i, c) # Nil
        /\ StatsRead(j, c) # Nil
        /\ Deref(StatsRead(i, c)).TotalRequests >= 1
        /\ Deref(StatsRead(j, c)).TPMRemaining > Deref(StatsRead(i, c)).TPMRemaining

\* the latencies reported for clientID, in the order of the log
Samples(clientID) ==
    LET off == IF Len(log) >= 1 /\ log[1].call = "SetClientConfig" THEN 1 ELSE 0
    IN  [k \in 1..(Len(log) - off) |-> log[k + off].latencyMs]

\* a_n of the claim for the samples s: a_1 = s[1], a_k = (a_(k-1) + s[k]) / 2
RECURSIVE Smoothed(_, _)
Smoothed(s, n) ==
    IF n = 1 THEN <<s[1], 0>>
    ELSE LET a == Smoothed(s, n - 1) IN Norm(a[1] + s[n] * (2 ^ a[2]), a[2] + 1)

\* C20: after UpdateLatency has recorded the samples s1 .. sn (each >= 0, 0
\* included) on a client that has a ClientStats, AvgLatencyMs is a_n, where
\* a_1 = s1 and a_k = (a_(k-1) + s_k) / 2; and UpdateLatency on a client
\* without a ClientStats creates none and changes nothing.
C20_SmoothedAverage ==
    \A c \in ClientIds :
        /\ (stats[c] # Nil /\ Len(Samples(c)) >= 1) =>
               St(c).AvgLatencyMs = Smoothed(Samples(c), Len(Samples(c)))
        /\ (Len(log) >= 1 /\ log[1].call = "UpdateLatency") =>
               (stats[c] = Nil /\ clients[c] = Nil)

\* C21: GetClientConfig, GetClientStats and DeleteClient on a client identifier
\* that is in neither map of the registry report not found (false, and 404
\* from the REST server) and leave the registry as it is: nothing is created
\* for the identifier and no other client's ClientLimiter or ClientStats changes.
C21_AbsentNotFound ==
    [][\A id \in Tenants : (clients[id] = Nil /\ stats[id] = Nil) =>
          /\ getClient(id) =>
                 /\ ~GetClientConfigReturn(id).found
                 /\ GetClientConfigReturn(id).config = Nil
                 /\ log'[1].status = 404
                 /\ UNCHANGED <<clients, heap, stats>>
          /\ getClientStats(id) =>
                 /\ ~GetClientStatsReturn(id).found
                 /\ GetClientStatsReturn(id).stats = Nil
                 /\ log'[1].status = 404
                 /\ UNCHANGED <<clients, heap, stats>>
          /\ deleteClient(id) =>
                 /\ ~DeleteClientReturn(id)
                 /\ log'[1].status = 404
                 /\ UNCHANGED <<clients, heap, stats>>
      ]_vars

\* C21's case: a request for a client that is not there has just been answered
\* with 404 while the other client has a request on record
C21_Witness ==
    \E id \in Tenants, other \in Tenants :
        /\ id # other
        /\ Len(log) = 1
        /\ log[1].call \in {"getClient", "getClientStats", "deleteClient"}
        /\ log[1].clientID = id
        /\ log[1].status = 404
        /\ log[1].n = ops
        /\ clients[id] = Nil
        /\ stats[id] = Nil
        /\ clients[other] # Nil
        /\ stats[other] # Nil
        /\ St(other).TotalRequests >= 1

\* C22: PUT /clients/{client_id} with a JSON body for a client identifier that
\* is not in the registry is answered with 404 and creates no client.
C22_UpdateUnknownNotFound ==
    [][\A id \in Tenants : \A body \in Bodies :
          (clients[id] = Nil /\ stats[id] = Nil /\ body.valid /\ updateClient(id, body)) =>
              /\ log'[1].status = 404
              /\ clients'[id] = Nil
              /\ stats'[id] = Nil
      ]_vars

\* the configuration the registry holds for clientID
Cfg(clientID) == Deref(heap[Deref(clients[clientID])]).config

\* the last request to the REST server created or updated clientID with a
\* body that gave a limit and said nothing of enabled
WrittenWithoutEnabled(clientID) ==
    /\ Len(log) = 1
    /\ log[1].call \in {"createClient", "updateClient"}
    /\ log[1].clientID = clientID
    /\ log[1].status \in {200, 201}
    /\ log[1].enabled = Missing
    /\ clients[clientID] # Nil
    /\ (Cfg(clientID).RPM # Nil \/ Cfg(clientID).TPM # Nil)

\* C23: a client created or updated through the REST server with limits and
\* without an enabled member is stored with Enabled = true, and CheckAndConsume
\* then enforces its limits: with no time passing, no more requests are
\* admitted than its request limit R > 0.
C23_DefaultEnabled ==
    \A id \in Tenants : WrittenWithoutEnabled(id) =>
        /\ Cfg(id).Enabled
        /\ (Cfg(id).RPM # Nil /\ Deref(Cfg(id).RPM) > 0 /\ stats[id] # Nil) =>
               St(id).SuccessRequests - log[1].success <= Deref(Cfg(id).RPM)

\* the header value s denotes a non-negative integer: decimal digits, after a
\* "+" perhaps, or after a "-" when they are all 0
NonNegativeInteger(s) ==
    LET digits == IF s # <<>> /\ s[1] \in {"+", "-"} THEN Tail(s) ELSE s
    IN  /\ digits # <<>>
        /\ \A i \in 1..Len(digits) : IsDigit(digits[i])
        /\ s[1] = "-" => \A i \in 1..Len(digits) : digits[i] = "0"

\* C24: a proxied request without X-Client-ID, without X-Token-Estimate, or
\* whose X-Token-Estimate is not a non-negative integer is answered with 400
\* and the handler returns without calling the Manager: no CheckAndConsume, no
\* client created, no bucket and no ClientStats changed.
C24_InvalidRejected ==
    [][\A c \in ClientHeaders, h \in TokenHeaders :
          (ServeHTTP(c, h) /\ (c = "" \/ h = <<>> \/ ~NonNegativeInteger(h))) =>
              /\ returned' # Nil
              /\ Deref(returned').status = 400
              /\ http' = NoRequest
              /\ UNCHANGED <<clients, heap, stats, thr, ops, log>>
      ]_vars

\* C24's case: a request with a bad X-Token-Estimate has just been answered
\* with 400 while a client has a request on record
C24_Witness ==
    /\ returned # Nil
    /\ "status" \in DOMAIN Deref(returned)
    /\ Deref(returned).status = 400
    /\ Deref(returned).error = "invalid_header"
    /\ http = NoRequest
    /\ \E c \in ClientIds : stats[c] # Nil /\ St(c).TotalRequests >= 1

\* C25: for every proxied request CheckAndConsume is called once, before any
\* forwarding. After ErrRPMExceeded or ErrTPMExceeded the handler writes 429
\* with that error's type and returns: nothing is forwarded and UpdateLatency
\* is not called. After nil the request is forwarded, then UpdateLatency is
\* called once for the client, and only then does the handler return.
C25_DecideForwardRecord ==
    /\ thr[Caller].pc # "idle" => http.pc = "decide"
    /\ http.pc \in {"call", "decide"} => log = <<>>
    /\ http.pc \in {"forward", "latency"} => Len(log) >= 1
    /\ Len(log) >= 1 =>
        /\ log[1].call = "CheckAndConsume"
        /\ \A i \in 2..Len(log) : log[i].call # "CheckAndConsume"
        /\ log[1].err \in {"rpm_exceeded", "tpm_exceeded"} =>
               /\ http = NoRequest
               /\ Len(log) = 2
               /\ log[2].call = "respond"
               /\ log[2].status = 429
               /\ log[2].error = log[1].err
        /\ log[1].err = "panic" => (http = NoRequest /\ Len(log) = 1)
        /\ log[1].err = "nil" =>
               /\ Len(log) = CASE http.pc = "forward" -> 1
                               [] http.pc = "latency" -> 2
                               [] OTHER -> 3
               /\ http.pc \in {"forward", "latency", "idle"}
               /\ Len(log) >= 2 => log[2].call = "forward"
               /\ Len(log) = 3 => /\ log[3].call = "UpdateLatency"
                                  /\ log[3].clientID = log[1].clientID

\* C25's case: the handler has returned from a request that CheckAndConsume
\* rejected on the token limit
C25_Witness ==
    /\ http = NoRequest
    /\ Len(log) = 2
    /\ log[1].call = "CheckAndConsume"
    /\ log[1].err = "tpm_exceeded"
    /\ log[2].call = "respond"
    /\ log[2].error = "tpm_exceeded"
    /\ returned # Nil
    /\ \E c \in ClientIds : stats[c] # Nil /\ St(c).TPMDropped = 1

\* C26: after any number of cycles of the updater, the counters exported for
\* a client (requests total and success, drops per reason, tokens used) equal
\* the client's statistics as GetAllStats returned them in the last cycle.
C26_CountersEqualStats ==
    (Len(log) = 1 /\ log[1].call = "UpdateMetrics") =>
        \A c \in DOMAIN log[1].stats :
            /\ c \in DOMAIN metrics
            /\ metrics[c].requestsTotal.total   = log[1].stats[c].TotalRequests
            /\ metrics[c].requestsTotal.success = log[1].stats[c].SuccessRequests
            /\ metrics[c].requestsDropped.rpm   = log[1].stats[c].RPMDropped
            /\ metrics[c].requestsDropped.tpm   = log[1].stats[c].TPMDropped
            /\ metrics[c].tokensUsed            = log[1].stats[c].TokensUsed

\* C27: while a client's ClientStats exists, TotalRequests, SuccessRequests,
\* DroppedRequests, RPMDropped, TPMDropped and TokensUsed never decrease in
\* a step, whatever the operations and their order, for tokens >= 0.
C27_CountersMonotonic ==
    [][\A c \in ClientIds :
          (stats[c] # Nil /\ stats'[c] # Nil) =>
              /\ Deref(stats'[c]).TotalRequests   >= St(c).TotalRequests
              /\ Deref(stats'[c]).SuccessRequests >= St(c).SuccessRequests
              /\ Deref(stats'[c]).DroppedRequests >= St(c).DroppedRequests
              /\ Deref(stats'[c]).RPMDropped      >= St(c).RPMDropped
              /\ Deref(stats'[c]).TPMDropped      >= St(c).TPMDropped
              /\ Deref(stats'[c]).TokensUsed      >= St(c).TokensUsed
      ]_vars

\* C28: CheckAndConsume calls for two different clients never contend on a
\* lock: a goroutine inside CheckAndConsume for one client never waits for a
\* lock that a goroutine inside CheckAndConsume for another client holds, the
\* statistics updates included.
C28_NoCrossClientWait ==
    \A t \in Threads : \A u \in Threads \ {t} :
        (Waiting(t) /\ Blocks(locks[u], WantsLock(t))) =>
            thr[t].clientID = thr[u].clientID

\* the calls of the log that returned err
Returned(err) == {k \in 1..Len(log) : log[k].call = "CheckAndConsume" /\ log[k].err = err}

\* C29: after any number of concurrent first CheckAndConsume calls on a client
\* that was unknown, with no DeleteClient, the registry holds one
\* ClientLimiter and one ClientStats for it, every call returned nil, and
\* TotalRequests is the number of calls.
C29_OneGetOrCreate ==
    \A c \in ClientIds :
        (AllIdle /\ ops >= 1 /\ \A k \in 1..Len(log) : Called(k, "CheckAndConsume", c)) =>
            /\ clients[c] # Nil
            /\ {o \in DOMAIN heap : heap[o] # Nil} = {Deref(clients[c])}
            /\ stats[c] # Nil
            /\ Len(log) = ops
            /\ Returned("nil") = 1..ops
            /\ St(c).TotalRequests = ops
            /\ St(c).SuccessRequests = ops

\* C29's case: two first calls raced, each made a ClientLimiter, and both
\* have returned
C29_Witness ==
    /\ AllIdle
    /\ ops = 2
    /\ Len(log) = 2
    /\ \A k \in 1..2 : Called(k, "CheckAndConsume", "a")
    /\ clients["a"] = Ptr(2)
    /\ St("a").TotalRequests = 2

\* what C30 says of calls that have all returned, the log starting with
\* SetClientConfig(config), RPM = R: min(N, R) of the N calls returned nil,
\* TotalRequests = N and SuccessRequests = min(N, R)
ConcurrentBurst ==
    LET id == log[1].config.ClientID
        R  == Deref(log[1].config.RPM)
        N  == ops
    IN  (AllIdle /\ Burst(Len(log) - 1, id)) =>
            /\ Len(log) = N + 1
            /\ Cardinality(Returned("nil")) = min(N, R)
            /\ St(id).TotalRequests = N
            /\ St(id).SuccessRequests = min(N, R)

\* C30 as claimed: for a client with RPM = R, N concurrent CheckAndConsume
\* calls with no time elapsing and no SetClientConfig or DeleteClient beside
\* them admit min(N, R) requests in every interleaving, and the statistics
\* then hold TotalRequests = N and SuccessRequests = min(N, R).
C30_ConcurrentBurst ==
    Configured("RPM") => ConcurrentBurst

\* C30 as amended: the same for a client that SetClientConfig creates with
\* Enabled true, RPM = R > 0 and TPM nil.
C30_ConcurrentBurstNewEnabled ==
    (RequestLimitOnly /\ log[1].config.Enabled /\ log[1].replaced = "none")
        => ConcurrentBurst

\* C30's case: two calls were under way at the same time for a limit of one,
\* three calls have returned, and two of them were rejected
C30_Witness ==
    /\ RequestLimitOnly
    /\ log[1].config.Enabled
    /\ log[1].replaced = "none"
    /\ Deref(log[1].config.RPM) = 1
    /\ AllIdle
    /\ ops = 3
    /\ Burst(3, "a")
    /\ Cardinality(Returned("rpm_exceeded")) = 2
    /\ returned # Nil
    /\ Deref(returned).t = "t2"

\* C33: a ClientLimiter that SetClientConfig installed is never replaced by
\* the auto-create of CheckAndConsume: no step of a CheckAndConsume changes
\* the configuration of a client that is in the registry, so the limits given
\* to SetClientConfig stay until the next SetClientConfig or DeleteClient.
C33_ConfigNotReplaced ==
    [][\A t \in Threads, c \in ClientIds :
          (Steps(t) /\ clients[c] # Nil) =>
              /\ clients'[c] # Nil
              /\ Deref(heap'[Deref(clients'[c])]).config = Cfg(c)
      ]_vars

\* C34: in every reachable state, whatever the interleaving of
\* CheckAndConsume, SetClientConfig and DeleteClient, the clients that have a
\* ClientLimiter are the clients that have a ClientStats.
C34_SameClients ==
    \A c \in ClientIds : clients[c] = Nil <=> stats[c] = Nil

\* the value C36 asks of a remaining-tokens field: the floored level of the
\* bucket the client owns now, 0 when it owns none
RemainingOf(b) == IF b = Nil THEN 0 ELSE Level(Deref(b)) \div SecondsPerMinute

\* C36: the RPMRemaining and TPMRemaining that GetClientStats reports are
\* those of the buckets the client owns at the call: the floored level of the
\* bucket, and 0 when the client owns no bucket on the dimension, never a value
\* left from a bucket that was replaced.
C36_RemainingOfCurrentBucket ==
    [][\A c \in ClientIds :
          (GetClientStats(c) /\ stats[c] # Nil /\ clients[c] # Nil) =>
              LET cl == Deref(heap[Deref(clients[c])]) IN
              /\ Deref(stats'[c]).RPMRemaining = RemainingOf(cl.rpmBucket)
              /\ Deref(stats'[c]).TPMRemaining = RemainingOf(cl.tpmBucket)
      ]_vars

\* goroutine t is inside a critical section that writes a field of the
\* ClientStats of clientID: the counters in updateSuccessStats and
\* updateDroppedStats, RPMRemaining or TPMRemaining in GetClientStats
WritesStats(t, clientID) ==
    /\ locks[t] # Unlocked
    /\ thr[t].clientID = clientID
    /\ stats[clientID] # Nil
    /\ \/ thr[t].pc \in {"drop_rpm", "drop_tpm", "success"}
       \/ /\ thr[t].pc = "getstats"
          /\ clients[clientID] # Nil
          /\ \/ Deref(heap[Deref(clients[clientID])]).rpmBucket # Nil
             \/ Deref(heap[Deref(clients[clientID])]).tpmBucket # Nil

\* C35: a field of a ClientStats is written only under an exclusive lock: in
\* no reachable state are two goroutines writing the same ClientStats at the
\* same time, concurrent GetClientStats calls that refresh RPMRemaining and
\* TPMRemaining included.
C35_OneWriter ==
    \A c \in ClientIds : \A t \in Threads : \A u \in Threads \ {t} :
        ~(WritesStats(t, c) /\ WritesStats(u, c))

\* C31: with every goroutine going on as long as it can, every operation of
\* the Manager that is called returns, whatever the interleaving: a goroutine
\* inside an operation gets out of it, and by a return; no reachable state is
\* a deadlock among Manager.mutex, the ClientLimiters' mutexes and the
\* buckets' mutexes; and a goroutine that is outside every operation holds
\* no lock.
C31_EveryOperationReturns ==
    /\ \A t \in Threads : (thr[t].pc # "idle") ~> (thr[t].pc = "idle")
    /\ [][\A t \in Threads :
             (thr[t].pc # "idle" /\ thr'[t].pc = "idle") =>
                 ~(returned' # Nil /\ Deref(returned').err = "panic")
         ]_vars
    /\ []((\E t \in Threads : thr[t].pc # "idle") => \E t \in Threads : ENABLED Run(t))
    /\ [](\A t \in Threads : thr[t].pc = "idle" => locks[t] = Unlocked)

\* C32: every TryConsume of a run with GetRemainingTokens calls in it returns
\* what it returns in the run of the same TryConsume calls, at the same times,
\* without them
C32_ReadsDoNotInfluence ==
    \A k \in 1..Len(log) :
        log[k].result = TryConsumeFloat(Unread(k - 1), log[k].tokens, log[k].at).ok

====
